---- MODULE Spec2Model ----
(***************************************************************************)
(* A model of the PeerTube multi-instance plugin: settings coercion,       *)
(* instance selection, the aggregated home feed (getHome), the seen-ID     *)
(* history and the saved state (enable / saveState).                       *)
(*                                                                         *)
(* Two builds of the same plugin are in the repository, src/script.js and  *)
(* src/unnamed/part_001.  They agree on getHome, enable and saveState and  *)
(* differ in how instanceSampleSize and seenMax are clamped; `build` says  *)
(* which of the two files is running.                                      *)
(*                                                                         *)
(* JavaScript values are records [t, n, s, a]: t is the type tag, n the    *)
(* number (or 0/1 for a boolean), s the text, a the elements of an array   *)
(* or the members of an object.  A text is a sequence of                   *)
(* symbols: a symbol is one character that the code looks at (a digit, a   *)
(* space, a comma, a minus sign, a double quote) or a word the code only   *)
(* compares as a whole (a host URL, "true", "abc").                        *)
(*                                                                         *)
(* The host runtime's globals that neither file defines (http, plugin,     *)
(* bridge, IS_TESTING = false, ServerInstanceVersionIsSameOrNewer) are the *)
(* environment: the network answers are inputs of the actions, and the     *)
(* version comparison only picks the `sort` query parameter, which is not  *)
(* part of the modelled result.                                            *)
(*                                                                         *)
(* Specifications, all over the same variables:                            *)
(*   Spec        load, enable, getHome from the first candidate, saveState *)
(*   HomeSpec    getHome over one or two instances, four videos            *)
(*   FetchSpec   getHome over one or two instances that answer or fail     *)
(*   HealthSpec  getHome called twice in a row, hosts failing anew         *)
(*   SelSpec     selectInstancesForFeed over the instance settings         *)
(*   SeenSpec    pushSeenId over the seenMax settings                      *)
(***************************************************************************)
EXTENDS Integers, Sequences, FiniteSets, TLC

VARIABLES
    build,      \* "script" (src/script.js) or "part_001" (src/unnamed/part_001)
    _settings,  \* the parsed settings record (let _settings)
    state,      \* the plugin state: [serverVersion, seenIds]
    saved,      \* the blob the host application keeps from the last saveState
    ret         \* the call the host application made last and what it got back

vars == <<build, _settings, state, saved, ret>>

(***************************************************************************)
(* Bounds of the model.                                                    *)
(***************************************************************************)
\* the longest listing one host returns in the model
MaxItems == 2

(***************************************************************************)
(* Program constants.                                                      *)
(***************************************************************************)
DefaultSampleSize == 3
DefaultSeenMax == 500
DefaultMaxPerChannel == 2
totalLimit == 20

(***************************************************************************)
(* Sequences.                                                              *)
(***************************************************************************)
Range(s) == {s[i] : i \in 1..Len(s)}

Min(a, b) == IF a <= b THEN a ELSE b

Max(a, b) == IF a >= b THEN a ELSE b

\* Array.prototype.slice(0, n) for n >= 0
Take(s, n) == SubSeq(s, 1, Min(Len(s), n))

\* Array.prototype.includes
Includes(s, x) == \E i \in 1..Len(s) : s[i] = x

NoDuplicates(s) == \A i, j \in 1..Len(s) : i # j => s[i] # s[j]

\* [...new Set(s)]: first occurrences, in order
RECURSIVE Dedupe(_)
Dedupe(s) ==
    IF s = <<>> THEN <<>>
    ELSE LET init == Dedupe(SubSeq(s, 1, Len(s) - 1))
             last == s[Len(s)]
         IN  IF Includes(init, last) THEN init ELSE Append(init, last)

\* every ordering of the elements of a duplicate-free sequence
Orderings(s) ==
    {p \in [1..Len(s) -> Range(s)] : \A i, j \in 1..Len(s) : i # j => p[i] # p[j]}

(***************************************************************************)
(* JavaScript values: records [t, n, s, a].  t is the type, n the number   *)
(* (0 or 1 for a boolean), s the text of a string, a the elements of an    *)
(* array or the members [key, val] of an object, in order.                 *)
(***************************************************************************)
Undefined == [t |-> "undefined", n |-> 0, s |-> <<>>, a |-> <<>>]

Null == [t |-> "null", n |-> 0, s |-> <<>>, a |-> <<>>]

Num(k) == [t |-> "number", n |-> k, s |-> <<>>, a |-> <<>>]

Bool(b) == [t |-> "boolean", n |-> IF b THEN 1 ELSE 0, s |-> <<>>, a |-> <<>>]

Str(text) == [t |-> "string", n |-> 0, s |-> text, a |-> <<>>]

Arr(values) == [t |-> "array", n |-> 0, s |-> <<>>, a |-> values]

Obj(members) == [t |-> "object", n |-> 0, s |-> <<>>, a |-> members]

\* an array of strings
StrArr(texts) == Arr([i \in 1..Len(texts) |-> Str(texts[i])])

\* ToBoolean
Truthy(v) ==
    CASE v.t = "undefined" -> FALSE
      [] v.t = "null" -> FALSE
      [] v.t = "number" -> v.n # 0
      [] v.t = "boolean" -> v.n = 1
      [] v.t = "string" -> v.s # <<>>
      [] OTHER -> TRUE

Digits == {"0", "1", "2", "3", "4", "5", "6", "7", "8", "9"}

DigitValue(d) ==
    CASE d = "0" -> 0 [] d = "1" -> 1 [] d = "2" -> 2 [] d = "3" -> 3
      [] d = "4" -> 4 [] d = "5" -> 5 [] d = "6" -> 6 [] d = "7" -> 7
      [] d = "8" -> 8 [] d = "9" -> 9

DigitSymbol(k) ==
    CASE k = 0 -> "0" [] k = 1 -> "1" [] k = 2 -> "2" [] k = 3 -> "3"
      [] k = 4 -> "4" [] k = 5 -> "5" [] k = 6 -> "6" [] k = 7 -> "7"
      [] k = 8 -> "8" [] k = 9 -> "9"

\* the decimal digits of k >= 0
RECURSIVE NatText(_)
NatText(k) ==
    IF k < 10 THEN <<DigitSymbol(k)>>
    ELSE Append(NatText(k \div 10), DigitSymbol(k % 10))

\* String(k) for an integer
IntText(k) == IF k < 0 THEN <<"-">> \o NatText(0 - k) ELSE NatText(k)

\* String(v); the elements of an array are joined by commas
RECURSIVE ToStringText(_)
RECURSIVE JoinComma(_)
ToStringText(v) ==
    CASE v.t = "string" -> v.s
      [] v.t = "number" -> IntText(v.n)
      [] v.t = "boolean" -> IF v.n = 1 THEN <<"true">> ELSE <<"false">>
      [] v.t = "null" -> <<"null">>
      [] v.t = "undefined" -> <<"undefined">>
      [] v.t = "array" -> JoinComma(v.a)
      [] OTHER -> <<"[object Object]">>

JoinComma(values) ==
    IF values = <<>> THEN <<>>
    ELSE LET h == IF Head(values).t \in {"null", "undefined"} THEN <<>>
                  ELSE ToStringText(Head(values))
         IN  IF Len(values) = 1 THEN h
             ELSE h \o <<",">> \o JoinComma(Tail(values))

\* String.prototype.trim
RECURSIVE TrimLeft(_)
TrimLeft(text) ==
    IF text # <<>> /\ Head(text) = " " THEN TrimLeft(Tail(text)) ELSE text

RECURSIVE TrimRight(_)
TrimRight(text) ==
    IF text # <<>> /\ text[Len(text)] = " "
    THEN TrimRight(SubSeq(text, 1, Len(text) - 1))
    ELSE text

Trim(text) == TrimRight(TrimLeft(text))

\* the value of the longest prefix of digits, read after the digits `acc`
RECURSIVE DigitsPrefix(_, _)
DigitsPrefix(text, acc) ==
    IF text # <<>> /\ Head(text) \in Digits
    THEN DigitsPrefix(Tail(text), 10 * acc + DigitValue(Head(text)))
    ELSE acc

NaN == [nan |-> TRUE, n |-> 0]

\* parseInt of a text: leading blanks, a sign, then digits; NaN without a digit
ParseIntText(text) ==
    LET t1 == TrimLeft(text)
        neg == t1 # <<>> /\ Head(t1) = "-"
        t2 == IF t1 # <<>> /\ Head(t1) \in {"-", "+"} THEN Tail(t1) ELSE t1
    IN  IF t2 = <<>> \/ Head(t2) \notin Digits THEN NaN
        ELSE [nan |-> FALSE,
              n |-> IF neg THEN 0 - DigitsPrefix(t2, 0) ELSE DigitsPrefix(t2, 0)]

\* parseInt(v): v is converted to a string first
ParseInt(v) ==
    IF v.t = "number" THEN [nan |-> FALSE, n |-> v.n]
    ELSE ParseIntText(ToStringText(v))

\* parseInt(v) || d
ParseIntOr(v, d) ==
    LET p == ParseInt(v) IN IF p.nan \/ p.n = 0 THEN d ELSE p.n

\* String.prototype.split(','): the pieces between the commas
RECURSIVE SplitComma(_, _)
SplitComma(text, piece) ==
    IF text = <<>> THEN <<piece>>
    ELSE IF Head(text) = "," THEN <<piece>> \o SplitComma(Tail(text), <<>>)
    ELSE SplitComma(Tail(text), Append(piece, Head(text)))

\* texts.map(s => s.trim()).filter(Boolean)
RECURSIVE TrimAndDropEmpty(_)
TrimAndDropEmpty(texts) ==
    IF texts = <<>> THEN <<>>
    ELSE LET t == Trim(Head(texts))
         IN  IF t = <<>> THEN TrimAndDropEmpty(Tail(texts))
             ELSE <<t>> \o TrimAndDropEmpty(Tail(texts))

(***************************************************************************)
(* JSON.  A JSON text is a text whose symbols are the punctuation, the     *)
(* words null, true and false, digits, blanks and the words of strings.    *)
(***************************************************************************)
JsonFail == [ok |-> FALSE, v |-> Undefined, next |-> 0]

\* the first position from i on that holds no blank
RECURSIVE SkipBlanks(_, _)
SkipBlanks(x, i) ==
    IF i <= Len(x) /\ x[i] = " " THEN SkipBlanks(x, i + 1) ELSE i

\* the end of the run of digits that starts at i
RECURSIVE DigitsEnd(_, _)
DigitsEnd(x, i) ==
    IF i <= Len(x) /\ x[i] \in Digits THEN DigitsEnd(x, i + 1) ELSE i

\* the string whose opening quote is just before i: a backslash keeps the next symbol
RECURSIVE ReadString(_, _, _)
ReadString(x, i, acc) ==
    IF i > Len(x) THEN JsonFail
    ELSE IF x[i] = "\"" THEN [ok |-> TRUE, v |-> Str(acc), next |-> i + 1]
    ELSE IF x[i] = "\\"
    THEN IF i + 1 > Len(x) THEN JsonFail ELSE ReadString(x, i + 2, Append(acc, x[i + 1]))
    ELSE ReadString(x, i + 1, Append(acc, x[i]))

RECURSIVE ParseValue(_, _)
RECURSIVE ParseElements(_, _, _)
RECURSIVE ParseMembers(_, _, _)
\* the JSON value that starts at i (after blanks): [ok, v, next]
ParseValue(x, i) ==
    LET j == SkipBlanks(x, i)
    IN  IF j > Len(x) THEN JsonFail
        ELSE CASE x[j] = "null" -> [ok |-> TRUE, v |-> Null, next |-> j + 1]
               [] x[j] = "true" -> [ok |-> TRUE, v |-> Bool(TRUE), next |-> j + 1]
               [] x[j] = "false" -> [ok |-> TRUE, v |-> Bool(FALSE), next |-> j + 1]
               [] x[j] = "\"" -> ReadString(x, j + 1, <<>>)
               [] x[j] \in Digits ->
                    LET e == DigitsEnd(x, j)
                    IN  IF x[j] = "0" /\ e > j + 1 THEN JsonFail
                        ELSE [ok |-> TRUE,
                              v |-> Num(DigitsPrefix(SubSeq(x, j, e - 1), 0)),
                              next |-> e]
               [] x[j] = "-" ->
                    LET e == DigitsEnd(x, j + 1)
                    IN  IF e = j + 1 \/ (x[j + 1] = "0" /\ e > j + 2) THEN JsonFail
                        ELSE [ok |-> TRUE,
                              v |-> Num(0 - DigitsPrefix(SubSeq(x, j + 1, e - 1), 0)),
                              next |-> e]
               [] x[j] = "[" ->
                    LET k == SkipBlanks(x, j + 1)
                    IN  IF k <= Len(x) /\ x[k] = "]"
                        THEN [ok |-> TRUE, v |-> Arr(<<>>), next |-> k + 1]
                        ELSE ParseElements(x, j + 1, <<>>)
               [] x[j] = "{" ->
                    LET k == SkipBlanks(x, j + 1)
                    IN  IF k <= Len(x) /\ x[k] = "}"
                        THEN [ok |-> TRUE, v |-> Obj(<<>>), next |-> k + 1]
                        ELSE ParseMembers(x, j + 1, <<>>)
               [] OTHER -> JsonFail

\* the elements of an array from i on, after the elements acc
ParseElements(x, i, acc) ==
    LET e == ParseValue(x, i)
        k == SkipBlanks(x, e.next)
    IN  IF ~e.ok \/ k > Len(x) THEN JsonFail
        ELSE IF x[k] = "]" THEN [ok |-> TRUE, v |-> Arr(Append(acc, e.v)), next |-> k + 1]
        ELSE IF x[k] = "," THEN ParseElements(x, k + 1, Append(acc, e.v))
        ELSE JsonFail

\* the members of an object from i on, after the members acc
ParseMembers(x, i, acc) ==
    LET j == SkipBlanks(x, i)
        key == IF j <= Len(x) /\ x[j] = "\"" THEN ReadString(x, j + 1, <<>>) ELSE JsonFail
        c == SkipBlanks(x, key.next)
        e == IF key.ok /\ c <= Len(x) /\ x[c] = ":" THEN ParseValue(x, c + 1) ELSE JsonFail
        k == SkipBlanks(x, e.next)
        member == [key |-> key.v.s, val |-> e.v]
    IN  IF ~e.ok \/ k > Len(x) THEN JsonFail
        ELSE IF x[k] = "}"
        THEN [ok |-> TRUE, v |-> Obj(Append(acc, member)), next |-> k + 1]
        ELSE IF x[k] = "," THEN ParseMembers(x, k + 1, Append(acc, member))
        ELSE JsonFail

\* JSON.parse(text): [ok, v]; not ok is the SyntaxError
JsonParse(text) ==
    LET r == ParseValue(text, 1)
    IN  IF r.ok /\ SkipBlanks(text, r.next) > Len(text)
        THEN [ok |-> TRUE, v |-> r.v]
        ELSE [ok |-> FALSE, v |-> Undefined]

\* a string as JSON.stringify writes it: quotes and backslashes are escaped
RECURSIVE Escape(_)
Escape(text) ==
    IF text = <<>> THEN <<>>
    ELSE IF Head(text) \in {"\"", "\\"} THEN <<"\\", Head(text)>> \o Escape(Tail(text))
    ELSE <<Head(text)>> \o Escape(Tail(text))

Quote(text) == <<"\"">> \o Escape(text) \o <<"\"">>

\* the last member of an object with this key (a later key overrides an earlier one)
HasKey(obj, key) == \E i \in 1..Len(obj.a) : obj.a[i].key = key

GetKey(obj, key) ==
    LET i == CHOOSE m \in 1..Len(obj.a) :
                 /\ obj.a[m].key = key
                 /\ \A m2 \in (m + 1)..Len(obj.a) : obj.a[m2].key # key
    IN  obj.a[i].val

(***************************************************************************)
(* Settings.                                                               *)
(***************************************************************************)
SettingKeys ==
    {"instancesList", "instanceSampleSize", "randomizeInstances",
     "maxPerChannel", "seenMax", "preferredLanguages"}

\* let _settings = {}
EmptySettings == [k \in SettingKeys |-> Undefined]

\* parseSettings of src/script.js, one value: a string is trimmed and JSON-parsed,
\* the raw trimmed string is kept when it does not parse
ParseSettingScript(val) ==
    IF val.t # "string" THEN val
    ELSE LET s == Trim(val.s)
         IN  IF s = <<>> THEN Str(<<>>)
             ELSE IF JsonParse(s).ok THEN JsonParse(s).v
             ELSE Str(s)

\* parseSettings of src/unnamed/part_001, one value: only a text that starts like
\* a JSON object, array or quoted string is JSON-parsed
ParseSettingPart001(val) ==
    IF val.t # "string" THEN val
    ELSE LET s == Trim(val.s)
         IN  IF s = <<>> THEN Str(<<>>)
             ELSE IF \/ Head(s) \in {"{", "["}
                     \/ (Head(s) = "\"" /\ s[Len(s)] = "\"")
                  THEN IF JsonParse(s).ok THEN JsonParse(s).v ELSE Str(s)
             ELSE Str(s)

parseSettings(b, settings) ==
    [k \in SettingKeys |->
        IF b = "script" THEN ParseSettingScript(settings[k])
        ELSE ParseSettingPart001(settings[k])]

normalizeInstancesList(raw) ==
    IF ~Truthy(raw) THEN <<>>
    ELSE IF raw.t = "array"
    THEN TrimAndDropEmpty([i \in 1..Len(raw.a) |-> ToStringText(raw.a[i])])
    ELSE IF raw.t = "string" THEN TrimAndDropEmpty(SplitComma(raw.s, <<>>))
    ELSE <<>>

(***************************************************************************)
(* Instance selection.                                                     *)
(***************************************************************************)
\* plugin.config.constants.baseUrl
BaseUrl == <<"C">>

\* INDEX_INSTANCES.instances, the list appended at deployment (shortened)
INDEX_INSTANCES == << <<"I">> >>

\* the candidate list: user instances, base URL, index instances, deduplicated
Candidates(st) ==
    Dedupe(normalizeInstancesList(st.instancesList) \o <<BaseUrl>> \o INDEX_INSTANCES)

\* const sampleSize of src/script.js: not clamped
SampleSizeScript(st) == ParseIntOr(st.instanceSampleSize, DefaultSampleSize)

\* const sampleSize of src/unnamed/part_001: at least 1
SampleSizePart001(st) == Max(1, ParseIntOr(st.instanceSampleSize, DefaultSampleSize))

SampleSize(b, st) ==
    IF b = "script" THEN SampleSizeScript(st) ELSE SampleSizePart001(st)

ProbeOutcomes == {"ok", "notOk", "throws"}

\* a health check that passes every host (C6 fails when the probe is not what
\* decides)
isInstanceHealthyAlways(probe, host) == TRUE

\* isInstanceHealthy: true only when GET /api/v1/config answers isOk
isInstanceHealthy(probe, host) == probe[host] = "ok"

\* the loop over the shuffled candidates: [selected, probed]
RECURSIVE SelectLoop(_, _, _, _, _)
SelectLoop(rest, selected, probed, sampleSize, probe) ==
    IF rest = <<>> \/ Len(selected) >= sampleSize
    THEN [selected |-> selected, probed |-> probed]
    ELSE SelectLoop(Tail(rest),
                    IF isInstanceHealthy(probe, Head(rest))
                    THEN Append(selected, Head(rest)) ELSE selected,
                    Append(probed, Head(rest)), sampleSize, probe)

\* a selection that, with randomize off, returns the first sampleSize candidates
\* (C7 fails: the code returns the first candidate only)
selectFirstSampleSize(b, st, shuffled, probe) ==
    LET loop == SelectLoop(shuffled, <<>>, <<>>, SampleSize(b, st), probe)
    IN  IF ~Truthy(st.randomizeInstances)
        THEN [instances |-> Take(Candidates(st), Max(1, SampleSize(b, st))),
              probed |-> <<>>]
        ELSE IF loop.selected = <<>>
        THEN [instances |-> Take(Candidates(st), Max(1, SampleSize(b, st))),
              probed |-> loop.probed]
        ELSE [instances |-> loop.selected, probed |-> loop.probed]

\* a selection that falls back to the first hosts of the shuffled list (C9 fails:
\* the code falls back to the candidates in their original order)
selectFallbackShuffled(b, st, shuffled, probe) ==
    LET loop == SelectLoop(shuffled, <<>>, <<>>, SampleSize(b, st), probe)
    IN  IF ~Truthy(st.randomizeInstances)
        THEN [instances |-> <<Candidates(st)[1]>>, probed |-> <<>>]
        ELSE IF loop.selected = <<>>
        THEN [instances |-> Take(shuffled, Max(1, SampleSize(b, st))),
              probed |-> loop.probed]
        ELSE [instances |-> loop.selected, probed |-> loop.probed]

\* selectInstancesForFeed: shuffled is the order Math.random produced, probe
\* the answer each host gives to the health check.  [instances, probed]
selectInstancesForFeed(b, st, shuffled, probe) ==
    LET candidates == Candidates(st)
        sampleSize == SampleSize(b, st)
        loop == SelectLoop(shuffled, <<>>, <<>>, sampleSize, probe)
    IN  IF ~Truthy(st.randomizeInstances)
        THEN [instances |-> <<candidates[1]>>, probed |-> <<>>]
        ELSE IF loop.selected = <<>>
        THEN [instances |-> Take(candidates, Max(1, sampleSize)), probed |-> loop.probed]
        ELSE [instances |-> loop.selected, probed |-> loop.probed]

(***************************************************************************)
(* The seen-ID history.  state.seenIds is a JavaScript value: an array     *)
(* whenever the plugin itself built it.                                    *)
(***************************************************************************)
\* const seenMax of src/script.js: not clamped
SeenMaxScript(st) == ParseIntOr(st.seenMax, DefaultSeenMax)

\* const seenMax of src/unnamed/part_001: at least 0
SeenMaxPart001(st) == Max(0, ParseIntOr(st.seenMax, DefaultSeenMax))

SeenMax(b, st) == IF b = "script" THEN SeenMaxScript(st) ELSE SeenMaxPart001(st)

\* Array.prototype.slice(0, n), n negative counting from the end
Slice0(s, n) == IF n >= 0 THEN Take(s, n) ELSE Take(s, Max(0, Len(s) + n))

\* state.seenIds.includes(id) for an ID given as a text
SeenIncludes(seenIds, id) == Includes(seenIds.a, Str(id))

\* pushSeenId adding the ID with push instead of unshift (C22 fails when the new
\* ID goes to the tail, where the trimming removes it)
pushSeenIdAppending(b, st, seenIds, id) ==
    IF id = <<>> THEN seenIds
    ELSE LET added == IF SeenIncludes(seenIds, id) THEN seenIds.a
                      ELSE Append(seenIds.a, Str(id))
             seenMax == SeenMax(b, st)
         IN  IF Len(added) > seenMax THEN Arr(Slice0(added, seenMax)) ELSE Arr(added)

\* pushSeenId(id) on the history seenIds: the new history.  The empty text is the
\* falsy ID.  On a number or an object that a saved state put in the array's
\* place, seenIds.includes (part_001: indexOf) is no function: the TypeError
\* leaves the value as it is
pushSeenId(b, st, seenIds, id) ==
    IF id = <<>> \/ seenIds.t # "array" THEN seenIds
    ELSE LET added == IF SeenIncludes(seenIds, id) THEN seenIds.a
                      ELSE <<Str(id)>> \o seenIds.a
             seenMax == SeenMax(b, st)
         IN  IF Len(added) > seenMax THEN Arr(Slice0(added, seenMax)) ELSE Arr(added)

\* getHome recording nothing of what it returns (C21 fails without the forEach)
PushAllSkipped(b, st, seenIds, items) == seenIds

\* final.forEach(v => pushSeenId(v.id.value))
RECURSIVE PushAll(_, _, _, _)
PushAll(b, st, seenIds, items) ==
    IF items = <<>> THEN seenIds
    ELSE LET pushed == pushSeenId(b, st, seenIds, Head(items).id)
         IN  IF pushed = seenIds THEN PushAll(b, st, seenIds, Tail(items))
             ELSE PushAll(b, st, pushed, Tail(items))

(***************************************************************************)
(* The language filter.                                                    *)
(***************************************************************************)
Lower(c) ==
    CASE c = "E" -> "e" [] c = "N" -> "n" [] c = "F" -> "f" [] c = "R" -> "r"
      [] OTHER -> c

\* String.prototype.toLowerCase
LowerText(text) == [i \in 1..Len(text) |-> Lower(text[i])]

\* c.indexOf(p) !== -1
Contains(c, p) ==
    \E i \in 1..(Len(c) - Len(p) + 1) : SubSeq(c, i, i + Len(p) - 1) = p

RECURSIVE LowerTrimAndDropEmpty(_)
LowerTrimAndDropEmpty(texts) ==
    IF texts = <<>> THEN <<>>
    ELSE LET t == LowerText(Trim(Head(texts)))
         IN  IF t = <<>> THEN LowerTrimAndDropEmpty(Tail(texts))
             ELSE <<t>> \o LowerTrimAndDropEmpty(Tail(texts))

normalizePreferredLanguages(raw) ==
    IF ~Truthy(raw) THEN <<>>
    ELSE IF raw.t = "array"
    THEN LowerTrimAndDropEmpty([i \in 1..Len(raw.a) |-> ToStringText(raw.a[i])])
    ELSE IF raw.t = "string" THEN LowerTrimAndDropEmpty(SplitComma(raw.s, <<>>))
    ELSE <<>>

\* the lower-cased language values the filter collects from an item (src/script.js)
LanguageCandidatesScript(item) ==
    (IF Truthy(item.language) THEN <<LowerText(ToStringText(item.language))>> ELSE <<>>)
    \o (IF ~Truthy(item.languages) THEN <<>>
        ELSE IF item.languages.t = "array"
        THEN [i \in 1..Len(item.languages.a) |->
                 LowerText(ToStringText(item.languages.a[i]))]
        ELSE <<LowerText(ToStringText(item.languages))>>)

\* the same of src/unnamed/part_001: a languages value that is no array is ignored
LanguageCandidatesPart001(item) ==
    (IF Truthy(item.language) THEN <<LowerText(ToStringText(item.language))>> ELSE <<>>)
    \o (IF Truthy(item.languages) /\ item.languages.t = "array"
        THEN [i \in 1..Len(item.languages.a) |->
                 LowerText(ToStringText(item.languages.a[i]))]
        ELSE <<>>)

matchesPreferredLanguage(b, st, item) ==
    LET pref == normalizePreferredLanguages(st.preferredLanguages)
        cands == IF b = "script" THEN LanguageCandidatesScript(item)
                 ELSE LanguageCandidatesPart001(item)
    IN  IF pref = <<>> THEN TRUE
        ELSE IF \E i \in 1..Len(cands), j \in 1..Len(pref) : Contains(cands[i], pref[j])
        THEN TRUE
        ELSE cands = <<>>

(***************************************************************************)
(* Fetching one page from one host (getVideoPager) and the aggregation.    *)
(***************************************************************************)
\* a PlatformVideo: id.value, author.id.value (the channel name), author.name,
\* and the language metadata kept for the filter
Video(id, chan, name, language) ==
    [id |-> id, chan |-> chan, name |-> name,
     language |-> language, languages |-> Null]

\* what a host can do with the listing request
FailureKinds == {"non200", "httpThrows", "unparseable", "badRecord"}

\* getVideoPager mapping whatever body arrived (C4 fails when a failing host
\* contributes records)
getVideoPagerKeepingBody(resp) == [threw |-> FALSE, results |-> resp.data]

\* getVideoPager answering with a record whatever the host did (C5 fails when a
\* failed request yields records)
getVideoPagerStale(resp) ==
    [threw |-> FALSE,
     results |-> <<Video(<<"stale">>, <<"chanA">>, <<"Chan A">>, Null)>>]

\* getVideoPager on a host's answer: [threw, results].  A status other than 200
\* gives the empty pager; an exception of http.GET, of JSON.parse or of the
\* mapping of a record leaves the function
getVideoPager(resp) ==
    CASE resp.kind = "ok" -> [threw |-> FALSE, results |-> resp.data]
      [] resp.kind = "non200" -> [threw |-> FALSE, results |-> <<>>]
      [] OTHER -> [threw |-> TRUE, results |-> <<>>]

\* the loop of getHome over the selected instances, each call in its own
\* try/catch: [raised, items]
RECURSIVE FetchLoop(_, _)
FetchLoop(instances, resp) ==
    IF instances = <<>> THEN [raised |-> FALSE, items |-> <<>>]
    ELSE LET pager == getVideoPager(resp[Head(instances)])
             rest == FetchLoop(Tail(instances), resp)
         IN  IF pager.threw THEN rest
             ELSE [raised |-> rest.raised, items |-> pager.results \o rest.items]

\* the channel key of an item
ChannelKey(item) ==
    IF item.chan # <<>> THEN item.chan
    ELSE IF item.name # <<>> THEN item.name
    ELSE <<"unknown">>

\* property names every object literal inherits from Object.prototype: reading
\* one of them from the fresh perChannelCount = {} gives a function, not undefined
ObjectPrototypeKeys ==
    {<<"constructor">>, <<"toString">>, <<"valueOf">>, <<"hasOwnProperty">>}

\* a number stored in perChannelCount, or what arithmetic made of a function
Count(k) == [kind |-> "number", n |-> k]

CountNaN == [kind |-> "NaN", n |-> 0]

CountFunction == [kind |-> "function", n |-> 0]

\* perChannelCount[channelKey] || 0
CountOrZero(perChannelCount, key) ==
    IF key \in DOMAIN perChannelCount
    THEN IF \/ perChannelCount[key].kind = "function"
            \/ (perChannelCount[key].kind = "number" /\ perChannelCount[key].n # 0)
         THEN perChannelCount[key] ELSE Count(0)
    ELSE IF key \in ObjectPrototypeKeys THEN CountFunction
    ELSE Count(0)

\* perChannelCount[channelKey] >= maxPerChannel
CountReached(c, maxPerChannel) == c.kind = "number" /\ c.n >= maxPerChannel

\* perChannelCount[channelKey]++
CountIncrement(c) == IF c.kind = "number" THEN Count(c.n + 1) ELSE CountNaN

MaxPerChannel(st) == Max(1, ParseIntOr(st.maxPerChannel, DefaultMaxPerChannel))

\* getHome never skipping what was seen (C3 fails without the check of seenIds)
SkipSeenNever(seenIds, vid) == FALSE

\* includeSeen === false && (state.seenIds || []).includes(vid)
SkipSeen(seenIds, vid) == SeenIncludes(seenIds, vid)

\* getHome never ending the loop early (C19 fails without the page limit)
PageFullNever(n) == FALSE

\* final.length >= totalLimit
PageFull(n) == n >= totalLimit

\* the filter loop of getHome over perInstanceResults: the items accepted
RECURSIVE FilterLoop(_, _, _, _, _, _, _)
FilterLoop(b, st, seenIds, items, seen, final, perChannelCount) ==
    IF items = <<>> THEN final
    ELSE LET item == Head(items)
             key == ChannelKey(item)
             c == CountOrZero(perChannelCount, key)
             counted == (key :> c) @@ perChannelCount
         IN  IF \/ item.id = <<>>
                \/ item.id \in seen
                \/ SkipSeen(seenIds, item.id)
                \/ ~matchesPreferredLanguage(b, st, item)
             THEN FilterLoop(b, st, seenIds, Tail(items), seen, final, perChannelCount)
             ELSE IF CountReached(c, MaxPerChannel(st))
             THEN FilterLoop(b, st, seenIds, Tail(items), seen, final, counted)
             ELSE IF PageFull(Len(final) + 1) THEN Append(final, item)
             ELSE FilterLoop(b, st, seenIds, Tail(items), seen \cup {item.id},
                             Append(final, item),
                             (key :> CountIncrement(c)) @@ perChannelCount)

\* (state.seenIds || []).includes(vid) in the filter loop, outside any try block:
\* a TypeError at the first record with an ID when state.seenIds is a number or
\* an object
SeenIdsRaises(seenIds, items) ==
    /\ seenIds.t # "array"
    /\ \E i \in 1..Len(items) : items[i].id # <<>>

\* getHome recording every fetched record as seen (C24 fails when a rejected
\* record leaves its ID in state.seenIds)
HomePassRecordingFetched(b, st, seenIds, instances, resp) ==
    LET fetched == FetchLoop(instances, resp)
        final == FilterLoop(b, st, seenIds, fetched.items, {}, <<>>, <<>>)
    IN  [raised |-> FALSE, final |-> final,
         seenIds |-> PushAll(b, st, seenIds, fetched.items)]

\* getHome after the selection: [raised, final, seenIds]
HomePass(b, st, seenIds, instances, resp) ==
    LET fetched == FetchLoop(instances, resp)
        final == FilterLoop(b, st, seenIds, fetched.items, {}, <<>>, <<>>)
    IN  IF fetched.raised \/ SeenIdsRaises(seenIds, fetched.items)
        THEN [raised |-> TRUE, final |-> <<>>, seenIds |-> seenIds]
        ELSE [raised |-> FALSE, final |-> final,
              seenIds |-> PushAll(b, st, seenIds, final)]

(***************************************************************************)
(* The saved state.                                                        *)
(***************************************************************************)
\* JSON.stringify of a value; an undefined member of an object is left out
RECURSIVE Stringify(_)
RECURSIVE StringifyElements(_)
RECURSIVE StringifyMembers(_, _)
Stringify(v) ==
    CASE v.t = "string" -> Quote(v.s)
      [] v.t = "number" -> IntText(v.n)
      [] v.t = "boolean" -> IF v.n = 1 THEN <<"true">> ELSE <<"false">>
      [] v.t = "array" -> <<"[">> \o StringifyElements(v.a) \o <<"]">>
      [] v.t = "object" -> <<"{">> \o StringifyMembers(v.a, TRUE) \o <<"}">>
      [] OTHER -> <<"null">>

StringifyElements(values) ==
    IF values = <<>> THEN <<>>
    ELSE Stringify(Head(values))
         \o (IF Len(values) = 1 THEN <<>> ELSE <<",">> \o StringifyElements(Tail(values)))

StringifyMembers(members, first) ==
    IF members = <<>> THEN <<>>
    ELSE IF Head(members).val.t = "undefined" THEN StringifyMembers(Tail(members), first)
    ELSE (IF first THEN <<>> ELSE <<",">>)
         \o Quote(Head(members).key) \o <<":">> \o Stringify(Head(members).val)
         \o StringifyMembers(Tail(members), FALSE)

\* let state = { serverVersion: '', isSearchEngineSepiaSearch: false, seenIds: [] }
InitialState == [serverVersion |-> Str(<<>>), seenIds |-> Arr(<<>>)]

\* source.saveState
saveState(st8) ==
    Str(Stringify(Obj(<<[key |-> <<"serverVersion">>, val |-> st8.serverVersion],
                        [key |-> <<"seenIds">>, val |-> st8.seenIds]>>)))

\* state = { ...state, ...parsed }: the members of an object override the fields
MergeState(st8, parsed) ==
    IF parsed.t # "object" THEN st8
    ELSE [serverVersion |-> IF HasKey(parsed, <<"serverVersion">>)
                            THEN GetKey(parsed, <<"serverVersion">>)
                            ELSE st8.serverVersion,
          seenIds |-> IF HasKey(parsed, <<"seenIds">>)
                      THEN GetKey(parsed, <<"seenIds">>)
                      ELSE st8.seenIds]

\* the reading of saveStateStr with JSON.parse outside the try block (C10 fails
\* when the exception of JSON.parse leaves source.enable)
LoadStateUncaught(st8, saveStateStr) ==
    IF Truthy(saveStateStr) /\ saveStateStr.t = "string" /\ Trim(saveStateStr.s) # <<>>
    THEN LET parsed == JsonParse(saveStateStr.s)
         IN  IF ~parsed.ok
             THEN [loaded |-> FALSE, raised |-> TRUE, state |-> st8]
             ELSE IF Truthy(parsed.v)
             THEN [loaded |-> TRUE, raised |-> FALSE, state |-> MergeState(st8, parsed.v)]
             ELSE [loaded |-> FALSE, raised |-> FALSE, state |-> st8]
    ELSE [loaded |-> FALSE, raised |-> FALSE, state |-> st8]

\* the try block of source.enable that reads saveStateStr: [loaded, raised, state];
\* the exception of JSON.parse is caught and logged
LoadState(st8, saveStateStr) ==
    IF Truthy(saveStateStr) /\ saveStateStr.t = "string" /\ Trim(saveStateStr.s) # <<>>
    THEN LET parsed == JsonParse(saveStateStr.s)
         IN  IF parsed.ok /\ Truthy(parsed.v)
             THEN [loaded |-> TRUE, raised |-> FALSE, state |-> MergeState(st8, parsed.v)]
             ELSE [loaded |-> FALSE, raised |-> FALSE, state |-> st8]
    ELSE [loaded |-> FALSE, raised |-> FALSE, state |-> st8]

\* the answers of GET <baseUrl>/api/v1/config at enable
VersionProbes ==
    {[kind |-> "throws", version |-> Undefined],
     [kind |-> "notOk", version |-> Undefined],
     [kind |-> "badBody", version |-> Undefined],
     [kind |-> "ok", version |-> Str(<<"6", ".", "0">>)],
     [kind |-> "ok", version |-> Undefined]}

\* the probe of the base instance when no saved state was loaded
ProbeVersion(st8, probe) ==
    IF probe.kind = "ok" THEN [st8 EXCEPT !.serverVersion = probe.version] ELSE st8

\* how many requests for /api/v1/config source.enable sends: if (!didSaveState)
ProbesIssued(st8, saveStateStr) ==
    IF LoadState(st8, saveStateStr).loaded THEN 0 ELSE 1

\* source.enable(conf, settings, saveStateStr): the new state; the state is left
\* as it is when an exception leaves the function
enable(st8, saveStateStr, probe) ==
    LET load == LoadState(st8, saveStateStr)
        probed == IF load.loaded THEN load.state ELSE ProbeVersion(load.state, probe)
    IN  IF load.raised THEN st8
        ELSE [probed EXCEPT !.seenIds = IF Truthy(probed.seenIds) THEN probed.seenIds
                                        ELSE Arr(<<>>)]

(***************************************************************************)
(* The inputs of the model.                                                *)
(***************************************************************************)
Builds == {"script", "part_001"}

V1 == Video(<<"v1">>, <<"chanA">>, <<"Chan A">>, Str(<<"e", "n">>))

V2 == Video(<<"v2">>, <<"chanA">>, <<"Chan A">>, Str(<<"f", "r">>))

V3 == Video(<<"v3">>, <<"constructor">>, <<"Builders">>, Null)

V4 == Video(<<"v4">>, <<"constructor">>, <<"Builders">>, Null)

\* the videos the hosts serve
Videos == {V1, V2, V3, V4}

\* the listings a host returns: at most MaxItems of the videos, repetitions allowed
ListingsOf(videos) == UNION {[1..n -> videos] : n \in 0..MaxItems}

\* the answers of a host to the listing request; the body whose mapping throws
\* has a good record before the bad one
ResponsesOf(videos, kinds) ==
    {[kind |-> "ok", data |-> l] : l \in ListingsOf(videos)}
    \cup {[kind |-> k, data |-> IF k = "badRecord" THEN <<V1>> ELSE <<>>] : k \in kinds}

\* settings of the settings form: native booleans, numbers as strings
FormSettings(randomize, maxPerChannel, seenMax) ==
    [instancesList |-> Undefined,
     instanceSampleSize |-> Undefined,
     randomizeInstances |-> randomize,
     maxPerChannel |-> maxPerChannel,
     seenMax |-> seenMax,
     preferredLanguages |-> Undefined]

\* saved-state arguments that carry no state: absent, empty, blank, not a string,
\* not parseable
BadBlobs ==
    {Undefined, Null, Str(<<>>), Str(<<" ", " ">>), Num(7), Obj(<<>>),
     Str(<<"{", "\"", "seenIds", "\"", ":", "[", "\"", "v1", "\"">>),
     Str(<<"oops">>)}

(***************************************************************************)
(* The operations.  ret holds the call the host application made last and  *)
(* what it observed of it, until the application takes the result.         *)
(***************************************************************************)
Idle == [op |-> "idle"]

\* the script is loaded into a new process: the module-level variables are fresh
Reload ==
    /\ _settings' = EmptySettings
    /\ state' = InitialState
    /\ ret' = [op |-> "reload"]
    /\ UNCHANGED <<build, saved>>

\* source.enable(conf, settings, saveStateStr)
Enable(settings, saveStateStr, probe) ==
    /\ _settings' = parseSettings(build, settings)
    /\ state' = enable(state, saveStateStr, probe)
    /\ ret' = [op |-> "enable", raised |-> LoadState(state, saveStateStr).raised,
               settings |-> settings,
               blob |-> saveStateStr, before |-> state, probe |-> probe,
               probes |-> ProbesIssued(state, saveStateStr),
               loaded |-> LoadState(state, saveStateStr).loaded]
    /\ UNCHANGED <<build, saved>>

\* source.saveState(): the host application keeps the blob
SaveState ==
    /\ saved' = saveState(state)
    /\ ret' = [op |-> "saveState", raised |-> FALSE]
    /\ UNCHANGED <<build, _settings, state>>

\* what a getHome call remembers of the getHome call made directly before it
NoCall == [kinds |-> <<>>, probeFailed |-> {}]

\* source.getHome(): shuffled is the order the shuffle produced, probe the answer
\* of every candidate to the health check, resp the answer of every selected
\* instance to the listing request.  ret.prev: which hosts failed in the getHome
\* call made directly before this one, nothing having happened in between
GetHome(shuffled, probe, resp) ==
    LET sel == selectInstancesForFeed(build, _settings, shuffled, probe)
        pass == HomePass(build, _settings, state.seenIds, sel.instances, resp)
        okHosts == SelectSeq(sel.instances, LAMBDA h : resp[h].kind = "ok")
    IN  /\ state' = [state EXCEPT !.seenIds = pass.seenIds]
        /\ ret' = [op |-> "getHome", raised |-> pass.raised,
                   instances |-> sel.instances,
                   probed |-> sel.probed,
                   probeOk |-> {h \in Range(sel.probed) : probe[h] = "ok"},
                   kinds |-> [h \in Range(sel.instances) |-> resp[h].kind],
                   fetched |-> FetchLoop(sel.instances, resp).items,
                   final |-> pass.final,
                   okOnly |-> HomePass(build, _settings, state.seenIds, okHosts, resp).final,
                   seenBefore |-> state.seenIds,
                   prev |-> IF ret.op = "getHome"
                            THEN [kinds |-> ret.kinds,
                                  probeFailed |-> Range(ret.probed) \ ret.probeOk]
                            ELSE NoCall]
        /\ UNCHANGED <<build, _settings, saved>>

\* selectInstancesForFeed() called on its own
Select(shuffled, probe) ==
    LET sel == selectInstancesForFeed(build, _settings, shuffled, probe)
    IN  /\ ret' = [op |-> "select", instances |-> sel.instances,
                   probed |-> sel.probed, probe |-> probe]
        /\ UNCHANGED <<build, _settings, state, saved>>

\* pushSeenId(id) called on its own
PushSeenId(id) ==
    /\ state' = [state EXCEPT !.seenIds = pushSeenId(build, _settings, state.seenIds, id)]
    /\ ret' = [op |-> "pushSeenId", id |-> id, seenBefore |-> state.seenIds]
    /\ UNCHANGED <<build, _settings, saved>>

\* the host application takes the value the call returned
Return ==
    /\ ret.op # "idle"
    /\ ret' = Idle
    /\ UNCHANGED <<build, _settings, state, saved>>

\* the orders the shuffle can produce and the answers to the health checks,
\* as far as they can matter under the settings
SelectionInputs(st, outcomes) ==
    LET c == Candidates(st)
        random == Truthy(st.randomizeInstances)
    IN  {[shuffled |-> o, probe |-> p] :
            o \in IF random THEN Orderings(c) ELSE {c},
            p \in IF random THEN [Range(c) -> outcomes]
                  ELSE {[h \in Range(c) |-> "ok"]}}

\* getHome with every answer of the selected instances taken from responses
GetHomeWith(outcomes, responses) ==
    \E i \in SelectionInputs(_settings, outcomes) :
       \E resp \in [Range(selectInstancesForFeed(build, _settings,
                                                 i.shuffled, i.probe).instances)
                     -> responses] :
          GetHome(i.shuffled, i.probe, resp)

(***************************************************************************)
(* Spec: the life of the plugin in the host application: load, enable,     *)
(* home feeds, saveState.  The feed comes from the first candidate.        *)
(***************************************************************************)
LifeSettings ==
    {FormSettings(Bool(FALSE), Undefined, Undefined),
     FormSettings(Bool(FALSE), Undefined, Str(<<"1">>))}

LifeResponses == ResponsesOf({V1, V3}, {"non200"})

Init ==
    /\ build \in Builds
    /\ _settings = EmptySettings
    /\ state = InitialState
    /\ saved = Undefined
    /\ ret = Idle

Next ==
    \/ ret.op = "idle" /\ Reload
    \/ /\ ret.op = "idle"
       /\ \E settings \in LifeSettings, blob \in BadBlobs \cup {saved},
             probe \in VersionProbes : Enable(settings, blob, probe)
    \/ ret.op = "idle" /\ SaveState
    \/ ret.op = "idle" /\ GetHomeWith({"ok"}, LifeResponses)
    \/ Return

Spec == Init /\ [][Next]_vars

(***************************************************************************)
(* HomeSpec: aggregation passes over up to two instances, after enable     *)
(* without saved state.                                                    *)
(***************************************************************************)
HomeSettings ==
    {FormSettings(r, m, Str(<<"1">>)) :
        r \in {Bool(FALSE), Bool(TRUE)},
        m \in {Undefined, Str(<<"1">>)}}
    \cup {FormSettings(Bool(FALSE), Undefined, Undefined)}

InitHome ==
    /\ build \in Builds
    /\ _settings \in {parseSettings(build, s) : s \in HomeSettings}
    /\ state = enable(InitialState, Undefined, [kind |-> "notOk", version |-> Undefined])
    /\ saved = Undefined
    /\ ret = Idle

NextHome ==
    \/ ret.op = "idle" /\ GetHomeWith({"ok", "notOk"}, ResponsesOf(Videos, FailureKinds))
    \/ Return

HomeSpec == InitHome /\ [][NextHome]_vars

(***************************************************************************)
(* FetchSpec: passes over one or two instances that answer or fail in      *)
(* every way, the listings drawn from two videos.                          *)
(***************************************************************************)
FetchSettings ==
    {FormSettings(r, Undefined, Undefined) : r \in {Bool(FALSE), Bool(TRUE)}}

FetchResponses == ResponsesOf({V1, V3}, FailureKinds)

InitFetch ==
    /\ build \in Builds
    /\ _settings \in {parseSettings(build, s) : s \in FetchSettings}
    /\ state = enable(InitialState, Undefined, [kind |-> "notOk", version |-> Undefined])
    /\ saved = Undefined
    /\ ret = Idle

NextFetch ==
    \/ ret.op = "idle" /\ GetHomeWith({"ok", "notOk"}, FetchResponses)
    \/ Return

FetchSpec == InitFetch /\ [][NextFetch]_vars

(***************************************************************************)
(* SeenSpec: pushSeenId called on its own, over the values the seenMax     *)
(* setting can be given.                                                   *)
(***************************************************************************)
SeenMaxValues ==
    {Undefined, Str(<<"0">>), Num(0), Str(<<"1">>), Num(2), Str(<<"-", "1">>),
     Str(<<"many">>)}

\* the IDs handed to pushSeenId; the empty text is the falsy ID
PushedIds == {<<>>, <<"v1">>, <<"v2">>, <<"v3">>}

InitSeen ==
    /\ build \in Builds
    /\ _settings \in {parseSettings(build, FormSettings(Bool(FALSE), Undefined, x)) :
                         x \in SeenMaxValues}
    /\ state = InitialState
    /\ saved = Undefined
    /\ ret = Idle

NextSeen ==
    \/ ret.op = "idle" /\ \E id \in PushedIds : PushSeenId(id)
    \/ Return

SeenSpec == InitSeen /\ [][NextSeen]_vars

(***************************************************************************)
(* HealthSpec: getHome called again and again with no time passing in      *)
(* between, the hosts failing or answering anew at every call.             *)
(***************************************************************************)
HealthSettings ==
    {FormSettings(r, Undefined, Undefined) : r \in {Bool(FALSE), Bool(TRUE)}}

HealthResponses ==
    {[kind |-> "ok", data |-> <<V1>>],
     [kind |-> "non200", data |-> <<>>],
     [kind |-> "httpThrows", data |-> <<>>]}

InitHealth ==
    /\ build \in Builds
    /\ _settings \in {parseSettings(build, s) : s \in HealthSettings}
    /\ state = InitialState
    /\ saved = Undefined
    /\ ret = Idle

NextHealth == GetHomeWith({"ok", "notOk"}, HealthResponses)

HealthSpec == InitHealth /\ [][NextHealth]_vars

(***************************************************************************)
(* SelSpec: selectInstancesForFeed called on its own, over the values the  *)
(* instance settings can be given, every shuffle and every probe outcome.  *)
(***************************************************************************)
InstancesListValues ==
    {Undefined, Str(<<"A">>), Str(<<"A", ",", "B">>),
     Str(<<" ", "B", " ", ",", ",", "C", ",", "B">>)}

SampleSizeValues ==
    {Undefined, Str(<<"1">>), Num(2), Str(<<"2">>), Str(<<"0">>),
     Str(<<"-", "1">>), Str(<<"few">>)}

SelSettings ==
    {[FormSettings(r, Undefined, Undefined) EXCEPT
         !.instancesList = l, !.instanceSampleSize = n] :
        r \in {Bool(FALSE), Bool(TRUE)},
        l \in InstancesListValues,
        n \in SampleSizeValues}

InitSel ==
    /\ build \in Builds
    /\ _settings \in {parseSettings(build, s) : s \in SelSettings}
    /\ state = InitialState
    /\ saved = Undefined
    /\ ret = Idle

NextSel ==
    \/ /\ ret.op = "idle"
       /\ \E shuffled \in Orderings(Candidates(_settings)),
             probe \in [Range(Candidates(_settings)) -> ProbeOutcomes] :
             Select(shuffled, probe)
    \/ Return

SelSpec == InitSel /\ [][NextSel]_vars

(***************************************************************************)
(* LangSpec: matchesPreferredLanguage applied to one record, over the      *)
(* values the preferredLanguages setting and the record's language fields  *)
(* can be given.  The records getVideoPager builds have no video member.   *)
(***************************************************************************)
PreferredLanguagesValues ==
    {Undefined, Str(<<>>), Str(<<" ", ",">>), Str(<<"e", "n">>),
     Str(<<" ", "E", "N", ",", "d", "e">>), StrArr(<<<<"E", "n">>>>)}

\* v.language ?? v.languageId ?? null
LanguageValues == {Null, Str(<<"f", "r">>), Str(<<"E", "N", "-", "u", "s">>)}

\* v.languages ?? null: whatever the host's record holds under that key
LanguagesValues ==
    {Null, Arr(<<>>), StrArr(<<<<"f", "r">>>>), StrArr(<<<<"f", "r">>, <<"e", "n">>>>),
     Str(<<"f", "r">>)}

LangItems ==
    {[Video(<<"v1">>, <<"chanA">>, <<"Chan A">>, l) EXCEPT !.languages = ls] :
        l \in LanguageValues, ls \in LanguagesValues}

\* matchesPreferredLanguage(v) as getHome calls it on one record
MatchesPreferredLanguage(item) ==
    /\ ret' = [op |-> "matches", item |-> item,
               result |-> matchesPreferredLanguage(build, _settings, item)]
    /\ UNCHANGED <<build, _settings, state, saved>>

InitLang ==
    /\ build \in Builds
    /\ _settings \in {parseSettings(build,
                          [FormSettings(Bool(FALSE), Undefined, Undefined)
                              EXCEPT !.preferredLanguages = p]) :
                         p \in PreferredLanguagesValues}
    /\ state = InitialState
    /\ saved = Undefined
    /\ ret = Idle

NextLang ==
    \/ ret.op = "idle" /\ \E item \in LangItems : MatchesPreferredLanguage(item)
    \/ Return

LangSpec == InitLang /\ [][NextLang]_vars

(***************************************************************************)
(* The scripts of src/unnamed/part_000.  The file holds three further      *)
(* scripts of the plugin one after the other: lines 1-190 (getHome is one  *)
(* getVideoPager call on one host), lines 191-815 (getHome is              *)
(* fetchMixedVideos) and lines 816-1269 (getHome is a getVideoPager that   *)
(* fetches from every active instance).  A host's answer is                *)
(* [kind, data, total]: total is the total the body reports.               *)
(***************************************************************************)
DefaultPrimaryInstance == <<"peertube.futo.org">>

DefaultContentMixRatio == 3

PagerCount == 20

MaxResults == 100

\* the settings the scripts of part_000 read
Part000Settings(additional, random) ==
    [primaryInstance |-> Undefined, additionalInstances |-> additional,
     enableRandomInstances |-> random, contentMixRatio |-> Undefined]

\* getAllInstances() of lines 386-404; random is what fetchRandomInstances() gave
getAllInstances(st, random) ==
    LET primary == IF Truthy(st.primaryInstance) THEN st.primaryInstance.s
                   ELSE DefaultPrimaryInstance
        additional == IF Truthy(st.additionalInstances)
                      THEN TrimAndDropEmpty(SplitComma(st.additionalInstances.s, <<>>))
                      ELSE <<>>
        enabled == st.enableRandomInstances # Str(<<"false">>)
        all == <<primary>> \o additional \o (IF enabled THEN random ELSE <<>>)
    IN  Dedupe(SelectSeq(all, LAMBDA h : Trim(h) # <<>>))

\* getActiveInstances() of lines 1173-1199; random is what getRandomInstances() gave
getActiveInstances(st, random) ==
    LET primary == IF Truthy(st.primaryInstance) THEN st.primaryInstance.s
                   ELSE DefaultPrimaryInstance
        additional == IF Truthy(st.additionalInstances)
                      THEN SelectSeq(TrimAndDropEmpty(SplitComma(st.additionalInstances.s, <<>>)),
                                     LAMBDA h : h # primary)
                      ELSE <<>>
        configured == <<primary>> \o additional
        added == IF Truthy(st.enableRandomInstances)
                 THEN SelectSeq(Dedupe(random), LAMBDA h : ~Includes(configured, h))
                 ELSE <<>>
    IN  configured \o added

\* the orders shuffleArray can leave an array in
Shuffles(s) == {[i \in 1..Len(s) |-> s[p[i]]] : p \in Permutations(1..Len(s))}

\* makeRequest (409-423) and the guard of fetchMixedVideos (601): the records a
\* host contributes; every failure is caught and contributes nothing
RECURSIVE MixedVideos(_, _)
MixedVideos(instances, resp) ==
    IF instances = <<>> THEN <<>>
    ELSE (IF resp[Head(instances)].kind = "ok" THEN resp[Head(instances)].data ELSE <<>>)
         \o MixedVideos(Tail(instances), resp)

\* fetchMixedVideos of lines 581-628, shuffled being the order shuffleArray gave
fetchMixedVideos(shuffled) ==
    [results |-> Take(shuffled, Min(Len(shuffled), MaxResults)),
     hasMore |-> Len(shuffled) > 0]

\* fetchVideosFromInstance of lines 1097-1140: every failure is caught
fetchVideosFromInstance(resp, page, count) ==
    IF resp.kind = "ok"
    THEN [videos |-> resp.data, hasMore |-> resp.total > page * count + count]
    ELSE [videos |-> <<>>, hasMore |-> FALSE]

\* getVideoPager of lines 1058-1094 with no sourceHost, shuffled being the order
\* shuffleArray left the fetched records in
getVideoPagerActive(st, instances, resp, page, shuffled) ==
    LET videosPerInstance == ParseIntOr(st.contentMixRatio, DefaultContentMixRatio)
    IN  IF Len(instances) > 1 /\ page = 0
        THEN [results |-> shuffled,
              hasMore |-> \E i \in 1..Len(instances) :
                             fetchVideosFromInstance(resp[instances[i]], 0,
                                                     videosPerInstance).hasMore]
        ELSE LET one == fetchVideosFromInstance(resp[instances[1]], page, PagerCount)
             IN  [results |-> one.videos, hasMore |-> one.hasMore]

(***************************************************************************)
(* PagerSpec: the pager getHome returns, in each script of src/ that       *)
(* builds the home feed from several hosts.                                *)
(***************************************************************************)
PagerBuilds == Builds \cup {"part_000_mixed", "part_000_active"}

PagerTotals == {0, 25}

PagerResponses ==
    {[kind |-> "ok", data |-> l, total |-> t] :
        l \in ListingsOf({V1, V3}), t \in PagerTotals}
    \cup {[kind |-> k, data |-> <<>>, total |-> 0] : k \in {"non200", "httpThrows"}}

\* what the directory of instances gave
RandomInstances == {<<>>, << <<"R">> >>}

\* the continuation token getHome of lines 866-873 is called with
ContinuationTokens == {Undefined, Str(<<"1">>)}

\* getHome of src/script.js and src/unnamed/part_001
GetHomePager(shuffled, probe, resp) ==
    LET sel == selectInstancesForFeed(build, _settings, shuffled, probe)
        pass == HomePass(build, _settings, state.seenIds, sel.instances, resp)
    IN  /\ state' = [state EXCEPT !.seenIds = pass.seenIds]
        /\ ret' = [op |-> "homePager", results |-> pass.final, hasMore |-> FALSE,
                   fetched |-> Len(FetchLoop(sel.instances, resp).items),
                   reported |-> {resp[h].total : h \in Range(sel.instances)}]
        /\ UNCHANGED <<build, _settings, saved>>

\* getHome of part_000 lines 666-668
GetHomeMixed(random, resp, shuffled) ==
    LET instances == getAllInstances(_settings, random)
        pager == fetchMixedVideos(shuffled)
    IN  /\ shuffled \in Shuffles(MixedVideos(instances, resp))
        /\ ret' = [op |-> "homePager", results |-> pager.results,
                   hasMore |-> pager.hasMore,
                   fetched |-> Len(shuffled),
                   reported |-> {resp[h].total : h \in Range(instances)}]
        /\ UNCHANGED <<build, _settings, state, saved>>

\* getHome of part_000 lines 866-873
GetHomeActive(token, random, resp, shuffled) ==
    LET instances == getActiveInstances(_settings, random)
        page == IF Truthy(token) THEN ParseIntOr(token, 0) ELSE 0
        pager == getVideoPagerActive(_settings, instances, resp, page, shuffled)
    IN  /\ shuffled \in Shuffles(MixedVideos(instances, resp))
        /\ ret' = [op |-> "homePager", results |-> pager.results,
                   hasMore |-> pager.hasMore,
                   fetched |-> Len(pager.results),
                   reported |-> {resp[h].total : h \in Range(instances)}]
        /\ UNCHANGED <<build, _settings, state, saved>>

PagerSettings(b) ==
    IF b \in Builds
    THEN {parseSettings(b, FormSettings(Bool(FALSE), Undefined, Undefined))}
    ELSE {Part000Settings(Undefined, Undefined),
          Part000Settings(Str(<<"A">>), Str(<<"false">>)),
          Part000Settings(Undefined, Bool(TRUE))}

InitPager ==
    /\ build \in PagerBuilds
    /\ _settings \in PagerSettings(build)
    /\ state = InitialState
    /\ saved = Undefined
    /\ ret = Idle

NextPager ==
    \/ /\ ret.op = "idle" /\ build \in Builds
       /\ \E i \in SelectionInputs(_settings, {"ok"}) :
             \E resp \in [Range(Candidates(_settings)) -> PagerResponses] :
                GetHomePager(i.shuffled, i.probe, resp)
    \/ /\ ret.op = "idle" /\ build = "part_000_mixed"
       /\ \E random \in RandomInstances :
             \E resp \in [Range(getAllInstances(_settings, random)) -> PagerResponses] :
                \E shuffled \in Shuffles(MixedVideos(getAllInstances(_settings, random), resp)) :
                   GetHomeMixed(random, resp, shuffled)
    \/ /\ ret.op = "idle" /\ build = "part_000_active"
       /\ \E token \in ContinuationTokens, random \in RandomInstances :
             \E resp \in [Range(getActiveInstances(_settings, random)) -> PagerResponses] :
                \E shuffled \in Shuffles(MixedVideos(getActiveInstances(_settings, random), resp)) :
                   GetHomeActive(token, random, resp, shuffled)
    \/ Return

PagerSpec == InitPager /\ [][NextPager]_vars

(***************************************************************************)
(* ListingSpec: getVideoPager called on its own for one page of one host,  *)
(* as search, getChannelContents and nextPage call it, in each script that *)
(* has the function for a single host.                                     *)
(***************************************************************************)
\* getVideoPager of part_000 lines 116-150: the request, the parse and the mapping
\* are inside one try/catch
getVideoPagerSingle(resp) ==
    [threw |-> FALSE, results |-> IF resp.kind = "ok" THEN resp.data ELSE <<>>]

\* hasMore of the pager: total > start + count with count = 20
HasMore(pager, resp, page) ==
    ~pager.threw /\ resp.kind = "ok" /\ resp.total > page * PagerCount + PagerCount

ListingBuilds == Builds \cup {"part_000_single"}

\* what the host can do: answer, answer with another status, fail in transport,
\* answer 200 with an empty body, with a body that is no JSON, with a record
\* whose mapping throws
ListingResponses ==
    {[kind |-> "ok", data |-> l, total |-> t] :
        l \in ListingsOf({V1, V2, V3}), t \in PagerTotals}
    \cup {[kind |-> k, data |-> IF k = "badRecord" THEN <<V1>> ELSE <<>>, total |-> 0] :
             k \in FailureKinds \cup {"emptyBody"}}

ListingPages == {0, 1}

GetVideoPager(resp, page) ==
    LET pager == IF build \in Builds THEN getVideoPager(resp)
                 ELSE getVideoPagerSingle(resp)
    IN  /\ ret' = [op |-> "getVideoPager", kind |-> resp.kind, page |-> page,
                   threw |-> pager.threw, results |-> pager.results,
                   hasMore |-> HasMore(pager, resp, page)]
        /\ UNCHANGED <<build, _settings, state, saved>>

InitListing ==
    /\ build \in ListingBuilds
    /\ _settings = IF build \in Builds
                   THEN parseSettings(build, FormSettings(Bool(FALSE), Undefined, Undefined))
                   ELSE Part000Settings(Undefined, Undefined)
    /\ state = InitialState
    /\ saved = Undefined
    /\ ret = Idle

NextListing ==
    \/ /\ ret.op = "idle"
       /\ \E resp \in ListingResponses, page \in ListingPages : GetVideoPager(resp, page)
    \/ Return

ListingSpec == InitListing /\ [][NextListing]_vars

(***************************************************************************)
(* CoerceSpec: enable with the randomizeInstances setting given as a       *)
(* boolean or as a text, then the selection.                               *)
(***************************************************************************)
\* the texts that spell a boolean, in several letter cases and with blanks
FalseTexts == {<<"false">>, <<"False">>, <<"FALSE">>, <<" ", "false">>}

TrueTexts == {<<"true">>, <<"TRUE">>}

RandomizeValues ==
    {Bool(FALSE), Bool(TRUE)} \cup {Str(t) : t \in FalseTexts \cup TrueTexts}

CoerceSettings ==
    {[FormSettings(r, Undefined, Undefined) EXCEPT !.instancesList = Str(<<"A">>)] :
        r \in RandomizeValues}

InitCoerce ==
    /\ build \in Builds
    /\ _settings = EmptySettings
    /\ state = InitialState
    /\ saved = Undefined
    /\ ret = Idle

NextCoerce ==
    \/ /\ ret.op = "idle"
       /\ \E settings \in CoerceSettings, probe \in VersionProbes :
             Enable(settings, Undefined, probe)
    \/ /\ ret.op = "idle"
       /\ \E i \in SelectionInputs(_settings, {"ok", "notOk"}) :
             Select(i.shuffled, i.probe)
    \/ Return

CoerceSpec == InitCoerce /\ [][NextCoerce]_vars

(***************************************************************************)
(* CandSpec: the candidate list of selectInstancesForFeed over the values  *)
(* the instancesList setting can be given.  In an entry the first symbol   *)
(* stands for scheme://host and a "/" starts the path.                     *)
(***************************************************************************)
\* getBaseUrl(url): protocol//host of the URL, the path left out
RECURSIVE getBaseUrl(_)
getBaseUrl(url) ==
    IF url = <<>> \/ Head(url) = "/" THEN <<>>
    ELSE <<Head(url)>> \o getBaseUrl(Tail(url))

CandInstancesListValues ==
    {Undefined, Str(<<>>), Num(7), Str(<<",", " ">>), Str(<<"A">>),
     Str(<<"B", ",", "A", ",", "B">>), Str(<<"A", "/", ",", "A">>),
     Str(<<"C", "/">>), StrArr(<<<<" ", "A">>, <<"C">>>>)}

InitCand ==
    /\ build \in Builds
    /\ _settings \in {parseSettings(build,
                          [FormSettings(Bool(TRUE), Undefined, Undefined)
                              EXCEPT !.instancesList = l]) :
                         l \in CandInstancesListValues}
    /\ state = InitialState
    /\ saved = Undefined
    /\ ret = Idle

NextCand ==
    \/ /\ ret.op = "idle"
       /\ \E i \in SelectionInputs(_settings, {"ok", "notOk"}) :
             Select(i.shuffled, i.probe)
    \/ Return

CandSpec == InitCand /\ [][NextCand]_vars

(***************************************************************************)
(* LongSpec: getHome over two hosts whose listings together hold more      *)
(* records than a page, every record with its own ID and two records to a  *)
(* channel.                                                                *)
(***************************************************************************)
MaxLong == 24

\* the record numbered i
LongItem(i) ==
    Video(<<"v">> \o NatText(i), <<"ch">> \o NatText((i + 1) \div 2), <<"Chan">>, Null)

\* the records numbered from..to, in order
LongListing(from, to) == [i \in 1..(to - from + 1) |-> LongItem(from + i - 1)]

LongResponses ==
    {[kind |-> "ok", data |-> l] :
        l \in {<<>>, LongListing(1, 12), LongListing(9, MaxLong)}}
    \cup {[kind |-> "non200", data |-> <<>>]}

InitLong ==
    /\ build \in Builds
    /\ _settings = parseSettings(build, FormSettings(Bool(TRUE), Undefined, Undefined))
    /\ state = InitialState
    /\ saved = Undefined
    /\ ret = Idle

NextLong ==
    \/ ret.op = "idle" /\ GetHomeWith({"ok"}, LongResponses)
    \/ Return

LongSpec == InitLong /\ [][NextLong]_vars

(***************************************************************************)
(* PageSpec: the pages of one host's listing: getVideoPager called for a   *)
(* page, then nextPage called on the pager it returned, as the host        *)
(* application pages through a result (src/script.js, part_001).           *)
(***************************************************************************)
\* const count = 20 of getVideoPager
pageCount == 20

\* the last page the host application turns to
MaxPage == 3

\* page ?? 0
PageOrZero(page) == IF page.t \in {"undefined", "null"} THEN 0 ELSE page.n

\* getVideoPager taking the page number for the offset (C23 fails when start is
\* not page * count)
StartOfPageNumber(page) == PageOrZero(page)

\* const start = (page ?? 0) * count
StartOf(page) == PageOrZero(page) * pageCount

\* obj.total > (start + count); a body without total gives undefined > n, false
TotalExceeds(total, n) == total.t = "number" /\ total.n > n

\* a pager of the host application's class VideoPager, without context
PlainPager == [kind |-> "VideoPager", results |-> <<>>, hasMore |-> FALSE]

\* getVideoPager(path, params, page, sourceHost): the request made, whether an
\* exception left the function, and the pager returned
getVideoPagerPage(path, params, page, sourceHost, resp) ==
    LET start == StartOf(page)
        sent == [params EXCEPT !.start = Num(start), !.count = Num(pageCount)]
        mapped == getVideoPager(resp)
    IN  [request |-> [host |-> sourceHost, path |-> path, params |-> sent],
         threw |-> mapped.threw,
         pager |-> IF mapped.threw \/ resp.kind # "ok" THEN PlainPager
                   ELSE [kind |-> "PeerTubeVideoPager",
                         results |-> mapped.results,
                         hasMore |-> TotalExceeds(resp.total, start + pageCount),
                         context |-> [path |-> path, params |-> sent, page |-> page,
                                      sourceHost |-> sourceHost]]]

\* PeerTubeVideoPager.nextPage(): the page after the one in the context
nextPage(context, resp) ==
    getVideoPagerPage(context.path, context.params,
                      Num(PageOrZero(context.page) + 1), context.sourceHost, resp)

\* the paths and parameters getVideoPager is called with: the listing with and
\* without a sort order, the search
PagePaths == {<<"/api/v1/videos">>, <<"/api/v1/search/videos">>}

PageParams ==
    {[sort |-> s, start |-> Undefined, count |-> Undefined] :
        s \in {Undefined, Str(<<"best">>)}}

PageHosts == {BaseUrl, <<"A">>}

\* the page argument: left out by the caller, or a page number
PageArguments == {Undefined, Num(0), Num(1)}

\* the totals a host reports around the ends of the pages; Undefined: none
PageTotalsReported ==
    {Undefined} \cup {Num(k * pageCount + d) : k \in 0..2, d \in {0, 1}}

PageResponses ==
    {[kind |-> "ok", data |-> l, total |-> t] :
        l \in {<<>>, <<V1>>, <<V1, V3>>}, t \in PageTotalsReported}
    \cup {[kind |-> k, data |-> IF k = "badRecord" THEN <<V1>> ELSE <<>>,
           total |-> Undefined] : k \in FailureKinds}

\* getVideoPager called by search, getChannelContents or getHome's callers
FetchPage(path, params, page, sourceHost, resp) ==
    LET call == getVideoPagerPage(path, params, page, sourceHost, resp)
    IN  /\ ret' = [op |-> "fetchPage", page |-> page, resp |-> resp,
                   request |-> call.request, threw |-> call.threw,
                   pager |-> call.pager, from |-> call.request, fromPage |-> page]
        /\ UNCHANGED <<build, _settings, state, saved>>

\* nextPage() called on the pager the last call returned
NextPage(resp) ==
    LET call == nextPage(ret.pager.context, resp)
    IN  /\ ret' = [op |-> "nextPage",
                   page |-> Num(PageOrZero(ret.pager.context.page) + 1),
                   resp |-> resp,
                   request |-> call.request, threw |-> call.threw,
                   pager |-> call.pager, from |-> ret.request, fromPage |-> ret.page]
        /\ UNCHANGED <<build, _settings, state, saved>>

InitPage ==
    /\ build \in Builds
    /\ _settings = parseSettings(build, FormSettings(Bool(FALSE), Undefined, Undefined))
    /\ state = InitialState
    /\ saved = Undefined
    /\ ret = Idle

NextPageStep ==
    \/ /\ ret.op = "idle"
       /\ \E path \in PagePaths, params \in PageParams, page \in PageArguments,
             sourceHost \in PageHosts, resp \in PageResponses :
             FetchPage(path, params, page, sourceHost, resp)
    \/ /\ ret.op \in {"fetchPage", "nextPage"}
       /\ ~ret.threw
       /\ ret.pager.kind = "PeerTubeVideoPager"
       /\ PageOrZero(ret.pager.context.page) < MaxPage
       /\ \E resp \in PageResponses : NextPage(resp)
    \/ Return

PageSpec == InitPage /\ [][NextPageStep]_vars

(***************************************************************************)
(* FilterSpec: getHome passes in which every filter rejects: a language    *)
(* preference is set, the quota is one record per channel, and the hosts   *)
(* report records that share an ID or a channel.                           *)
(***************************************************************************)
\* the record of V1 as a host reports it that labels it with another language
V1f == Video(<<"v1">>, <<"chanA">>, <<"Chan A">>, Str(<<"f", "r">>))

V5 == Video(<<"v5">>, <<"chanA">>, <<"Chan A">>, Str(<<"e", "n">>))

FilterVideos == {V1, V1f, V2, V5}

FilterSettings ==
    {[FormSettings(Bool(TRUE), m, Undefined) EXCEPT
         !.preferredLanguages = Str(<<"e", "n">>)] : m \in {Str(<<"1">>), Undefined}}

InitFilter ==
    /\ build \in Builds
    /\ _settings \in {parseSettings(build, s) : s \in FilterSettings}
    /\ state = InitialState
    /\ saved = Undefined
    /\ ret = Idle

NextFilter ==
    \/ ret.op = "idle" /\ GetHomeWith({"ok"}, ResponsesOf(FilterVideos, {"non200"}))
    \/ Return

FilterSpec == InitFilter /\ [][NextFilter]_vars

(***************************************************************************)
(* BlobSpec: enable with saved-state texts that parse but carry something  *)
(* else than a list of distinct IDs, followed by getHome, pushSeenId and   *)
(* saveState.                                                              *)
(***************************************************************************)
\* {"seenIds":["v3"]}, {"seenIds":["v1","v1"]}, {"seenIds":7}
StateBlobs ==
    {Str(<<"{", "\"", "seenIds", "\"", ":", "[", "\"", "v3", "\"", "]", "}">>),
     Str(<<"{", "\"", "seenIds", "\"", ":",
            "[", "\"", "v1", "\"", ",", "\"", "v1", "\"", "]", "}">>),
     Str(<<"{", "\"", "seenIds", "\"", ":", "7", "}">>)}

InitBlob ==
    /\ build \in Builds
    /\ _settings = EmptySettings
    /\ state = InitialState
    /\ saved = Undefined
    /\ ret = Idle

NextBlob ==
    \/ /\ ret.op = "idle"
       /\ \E settings \in LifeSettings, blob \in StateBlobs \cup {Undefined, saved} :
             Enable(settings, blob, [kind |-> "notOk", version |-> Undefined])
    \/ ret.op = "idle" /\ SaveState
    \/ ret.op = "idle" /\ GetHomeWith({"ok"}, LifeResponses)
    \/ ret.op = "idle" /\ \E id \in {<<"v1">>, <<"v3">>} : PushSeenId(id)
    \/ Return

BlobSpec == InitBlob /\ [][NextBlob]_vars

(***************************************************************************)
(* WaitSpec: waitForSettingsReady of part_001, one step per check and per  *)
(* sleep, called as source.enable calls it.  ret carries the call while it *)
(* runs: the attempt reached and the delays slept so far.                  *)
(***************************************************************************)
\* the candidates enable passes: the settings argument and saveStateStr
WaitCandidates ==
    {Undefined, Null, Str(<<>>), Str(<<" ", " ">>), Str(<<"{", "}">>), Obj(<<>>),
     Arr(<<>>), Num(7), Bool(TRUE)}

\* maxAttempts of the two calls in source.enable
WaitAttempts == {4, 5}

\* baseDelay of the two calls in source.enable
WaitBaseDelay == 150

\* Math.pow(2, attempt)
RECURSIVE Pow2(_)
Pow2(k) == IF k = 0 THEN 1 ELSE 2 * Pow2(k - 1)

\* waitForSettingsReady sleeping a multiple of the base delay (C27 fails when the
\* delay does not double)
WaitDelayLinear(baseDelay, attempt) == baseDelay * (attempt + 1)

\* const delay = baseDelay * Math.pow(2, attempt)
WaitDelay(baseDelay, attempt) == baseDelay * Pow2(attempt)

\* the two tests of the loop body: a non-null object, or a string with something
\* in it besides white space
SettingsReady(candidate) ==
    \/ candidate.t \in {"object", "array"}
    \/ candidate.t = "string" /\ Trim(candidate.s) # <<>>

\* waitForSettingsReady(settingsCandidate, maxAttempts, baseDelay) is entered
WaitCall(candidate, maxAttempts) ==
    /\ ret' = [op |-> "waitForSettingsReady", pc |-> "check",
               candidate |-> candidate, maxAttempts |-> maxAttempts,
               baseDelay |-> WaitBaseDelay, attempt |-> 0, slept |-> <<>>,
               result |-> FALSE]
    /\ UNCHANGED <<build, _settings, state, saved>>

\* the loop condition and the two tests: return true, go to sleep, or leave the
\* loop and return false
WaitCheck ==
    /\ ret.op = "waitForSettingsReady"
    /\ ret.pc = "check"
    /\ ret' = IF ret.attempt >= ret.maxAttempts
              THEN [ret EXCEPT !.pc = "done", !.result = FALSE]
              ELSE IF SettingsReady(ret.candidate)
              THEN [ret EXCEPT !.pc = "done", !.result = TRUE]
              ELSE [ret EXCEPT !.pc = "sleep"]
    /\ UNCHANGED <<build, _settings, state, saved>>

\* sleepMs(delay) returns, through Thread.sleep or through the busy wait, and the
\* loop goes to the next attempt
WaitSleep ==
    /\ ret.op = "waitForSettingsReady"
    /\ ret.pc = "sleep"
    /\ \E via \in {"Thread.sleep", "busyWait"} :
          ret' = [ret EXCEPT !.pc = "check",
                             !.attempt = @ + 1,
                             !.slept = Append(@, [ms |-> WaitDelay(ret.baseDelay, ret.attempt),
                                                  via |-> via])]
    /\ UNCHANGED <<build, _settings, state, saved>>

InitWait ==
    /\ build = "part_001"
    /\ _settings = EmptySettings
    /\ state = InitialState
    /\ saved = Undefined
    /\ ret = Idle

NextWait ==
    \/ /\ ret.op = "idle"
       /\ \E candidate \in WaitCandidates, maxAttempts \in WaitAttempts :
             WaitCall(candidate, maxAttempts)
    \/ WaitCheck
    \/ WaitSleep
    \/ ret.op = "waitForSettingsReady" /\ ret.pc = "done" /\ Return

\* JavaScript runs the function to its end: a check and a sleep that can happen
\* do happen
WaitSpec == InitWait /\ [][NextWait]_vars /\ WF_vars(WaitCheck) /\ WF_vars(WaitSleep)

(***************************************************************************)
(* TrackerSpec: source.getPlaybackTracker and the PeerTubePlaybackTracker  *)
(* it returns.  The host application holds the tracker and calls onInit,   *)
(* onProgress and onConcluded on it in any order; ret carries the tracker  *)
(* and the view reports the last call sent.                                *)
(***************************************************************************)
\* one setting value through parseSettings
ParseSetting(b, val) ==
    IF b = "script" THEN ParseSettingScript(val) ELSE ParseSettingPart001(val)

\* the values the submitActivity setting is given: absent, native, as text
SubmitActivityValues ==
    {Undefined, Bool(TRUE), Bool(FALSE), Str(<<"true">>), Str(<<"false">>)}

\* the origins a URL can start with; any other first symbol is no absolute URL
\* and new URL(url) throws
UrlOrigins == {"A", "B"}

\* the path segments the pattern [a-zA-Z0-9-_]+ matches as a whole
IdSegments == {"v1", "v3", "watch"}

\* the prefixes of the pattern of extractVideoId:
\* /videos/watch/, /videos/embed/, /w/, /api/v1/videos/
VideoPathPrefixes ==
    {<<"/", "videos", "/", "watch", "/">>, <<"/", "videos", "/", "embed", "/">>,
     <<"/", "w", "/">>, <<"/", "api", "/", "v1", "/", "videos", "/">>}

\* extractVideoId(url): the ID, or the empty text for null
extractVideoId(url) ==
    IF url = <<>> \/ Head(url) \notin UrlOrigins THEN <<>>
    ELSE LET pathname == Tail(url)
             matching == {p \in VideoPathPrefixes :
                             /\ Len(pathname) > Len(p)
                             /\ SubSeq(pathname, 1, Len(p)) = p
                             /\ pathname[Len(p) + 1] \in IdSegments
                             /\ \/ Len(pathname) = Len(p) + 1
                                \/ pathname[Len(p) + 2] = "/"}
         IN  IF matching = {} THEN <<>>
             ELSE LET p == CHOOSE q \in matching : TRUE
                  IN  <<pathname[Len(p) + 1]>>

\* the URLs the host application asks a tracker for
TrackerUrls ==
    {<<>>, <<"oops">>, <<"A">>,
     <<"A", "/", "w", "/", "v1">>,
     <<"B", "/", "videos", "/", "watch", "/", "v3">>,
     <<"A", "/", "videos", "/", "embed", "/", "v1", "/", "x">>,
     <<"A", "/", "api", "/", "v1", "/", "videos", "/", "v3">>,
     <<"A", "/", "w", "/">>,
     <<"A", "/", "w", "/", "a.b">>,
     <<"A", "/", "c", "/", "v1">>,
     <<"A", "/", "videos", "/", "v1">>}

\* new PeerTubePlaybackTracker(videoId, baseUrl)
NewTracker(videoId, baseUrl) ==
    [videoId |-> videoId, baseUrl |-> baseUrl,
     lastReportedTime |-> 0, seekOccurred |-> FALSE]

\* no tracker: getPlaybackTracker returned null
NoTracker == [videoId |-> <<>>, baseUrl |-> <<>>,
              lastReportedTime |-> 0, seekOccurred |-> FALSE]

\* source.getPlaybackTracker(url)
getPlaybackTracker(st, url) ==
    IF ~Truthy(st.submitActivity) THEN NoTracker
    ELSE IF extractVideoId(url) = <<>> THEN NoTracker
    ELSE NewTracker(extractVideoId(url), getBaseUrl(url))

\* the playback positions the player reports, in half seconds
TrackerSeconds == {0, 1, 20, 21, 22, 23, 45}

\* Math.floor(seconds) of a position given in half seconds
FloorSeconds(half) == half \div 2

\* Math.abs(a - b)
Abs(k) == IF k < 0 THEN 0 - k ELSE k

\* the tracker taking a jump of ten seconds for a seek (C28 fails at exactly 10)
SeekDetectedFromTen(currentTime, lastReportedTime) ==
    Abs(currentTime - lastReportedTime) >= 10

\* Math.abs(currentTime - this.lastReportedTime) > 10
SeekDetected(currentTime, lastReportedTime) ==
    Abs(currentTime - lastReportedTime) > 10

\* reportView(currentTime): the tracker afterwards and the body posted
reportView(tracker, currentTime) ==
    [tracker |-> [tracker EXCEPT !.seekOccurred = FALSE],
     report |-> [baseUrl |-> tracker.baseUrl, videoId |-> tracker.videoId,
                 currentTime |-> currentTime,
                 viewEvent |-> IF tracker.seekOccurred THEN "seek" ELSE "none"]]

\* onInit(seconds)
onInit(tracker, half) ==
    reportView([tracker EXCEPT !.lastReportedTime = FloorSeconds(half)],
               FloorSeconds(half))

\* onProgress(seconds, isPlaying) while playing
onProgress(tracker, half) ==
    LET currentTime == FloorSeconds(half)
        seek == SeekDetected(currentTime, tracker.lastReportedTime)
    IN  reportView([tracker EXCEPT !.seekOccurred = @ \/ seek,
                                   !.lastReportedTime = currentTime],
                   currentTime)

\* onConcluded()
onConcluded(tracker) == reportView(tracker, tracker.lastReportedTime)

GetPlaybackTracker(url) ==
    /\ ret' = [op |-> "getPlaybackTracker", url |-> url,
               tracker |-> getPlaybackTracker(_settings, url),
               before |-> NoTracker, reports |-> <<>>, raised |-> FALSE,
               half |-> 0, isPlaying |-> FALSE]
    /\ UNCHANGED <<build, _settings, state, saved>>

\* a call on the tracker the host application holds; post: whether http.POST
\* returns or throws, the exception leaving the call after the tracker changed
OnInit(half, post) ==
    LET call == onInit(ret.tracker, half)
    IN  /\ ret' = [op |-> "onInit", url |-> ret.url, tracker |-> call.tracker,
                   before |-> ret.tracker, reports |-> <<call.report>>,
                   raised |-> post = "throws", half |-> half, isPlaying |-> FALSE]
        /\ UNCHANGED <<build, _settings, state, saved>>

OnProgress(half, isPlaying, post) ==
    LET call == onProgress(ret.tracker, half)
    IN  /\ ret' = IF ~isPlaying
                  THEN [op |-> "onProgress", url |-> ret.url, tracker |-> ret.tracker,
                        before |-> ret.tracker, reports |-> <<>>,
                        raised |-> FALSE, half |-> half, isPlaying |-> FALSE]
                  ELSE [op |-> "onProgress", url |-> ret.url, tracker |-> call.tracker,
                        before |-> ret.tracker, reports |-> <<call.report>>,
                        raised |-> post = "throws", half |-> half, isPlaying |-> TRUE]
        /\ UNCHANGED <<build, _settings, state, saved>>

OnConcluded(post) ==
    LET call == onConcluded(ret.tracker)
    IN  /\ ret' = [op |-> "onConcluded", url |-> ret.url, tracker |-> call.tracker,
                   before |-> ret.tracker, reports |-> <<call.report>>,
                   raised |-> post = "throws", half |-> 0, isPlaying |-> FALSE]
        /\ UNCHANGED <<build, _settings, state, saved>>

TrackerOps == {"getPlaybackTracker", "onInit", "onProgress", "onConcluded"}

InitTracker ==
    /\ build \in Builds
    /\ _settings \in
          {[k \in SettingKeys \cup {"submitActivity"} |->
               IF k = "submitActivity" THEN ParseSetting(build, v) ELSE Undefined] :
              v \in SubmitActivityValues}
    /\ state = InitialState
    /\ saved = Undefined
    /\ ret = Idle

NextTracker ==
    \/ ret.op = "idle" /\ \E url \in TrackerUrls : GetPlaybackTracker(url)
    \/ /\ ret.op \in TrackerOps
       /\ ret.tracker # NoTracker
       /\ \E half \in TrackerSeconds, post \in {"ok", "throws"} : OnInit(half, post)
    \/ /\ ret.op \in TrackerOps
       /\ ret.tracker # NoTracker
       /\ \E half \in TrackerSeconds, isPlaying \in BOOLEAN, post \in {"ok", "throws"} :
             OnProgress(half, isPlaying, post)
    \/ /\ ret.op \in TrackerOps
       /\ ret.tracker # NoTracker
       /\ \E post \in {"ok", "throws"} : OnConcluded(post)
    \/ Return

TrackerSpec == InitTracker /\ [][NextTracker]_vars

(***************************************************************************)
(* CacheSpec: fetchRandomInstances of part_000 (lines 252-339) with its    *)
(* cache.  state holds the script's module-level variables                 *)
(* randomInstancesCache and lastInstanceFetch; the time of a call is       *)
(* Date.now() in milliseconds since the script was loaded.                 *)
(***************************************************************************)
\* const INSTANCE_CACHE_DURATION = 30 * 60 * 1000
INSTANCE_CACHE_DURATION == 30 * 60 * 1000

\* randomInstanceCount of getSettings
randomInstanceCount == 3

\* how long the calls are followed, in milliseconds: twice the cache duration and
\* two more
MaxClock == 3600002

\* filterHealthyInstances: Math.min(20, instances.length) checks, 10 healthy hosts
MaxHealthChecks == 20

MaxHealthy == 10

\* the fallback instances of lines 299-310 (shortened)
FallbackInstances == << <<"F1">>, <<"F2">>, <<"F3">>, <<"F4">> >>

\* what the public directory answers: the hosts API with a list; the hosts API
\* failing or empty and the full API with a list; both failing or empty
DirectoryAnswers ==
    {[hosts |-> << <<"H1">>, <<"H2">>, <<"H3">>, <<"H4">> >>, full |-> <<>>],
     [hosts |-> << <<"H1">> >>, full |-> <<>>],
     [hosts |-> <<>>, full |-> << <<"H2">>, <<"H3">> >>],
     [hosts |-> <<>>, full |-> <<>>]}

\* which hosts answer the health check with a status from 200 to 399
HealthyHosts == {{}, {<<"H1">>, <<"F1">>}, {<<"H1">>, <<"H2">>, <<"H3">>, <<"H4">>,
                                             <<"F1">>, <<"F2">>, <<"F3">>, <<"F4">>}}

\* the instances after the two directory requests and the fallback
DirectoryInstances(directory) ==
    IF directory.hosts # <<>> THEN directory.hosts
    ELSE IF directory.full # <<>> THEN directory.full
    ELSE FallbackInstances

\* the loop of filterHealthyInstances from index i on: [healthy, checks]
RECURSIVE HealthLoop(_, _, _, _, _)
HealthLoop(instances, i, healthyInstances, checks, healthy) ==
    IF i > Min(MaxHealthChecks, Len(instances)) \/ Len(healthyInstances) >= MaxHealthy
    THEN [healthy |-> healthyInstances, checks |-> checks]
    ELSE HealthLoop(instances, i + 1,
                    IF instances[i] \in healthy THEN Append(healthyInstances, instances[i])
                    ELSE healthyInstances,
                    checks + 1, healthy)

\* filterHealthyInstances(instances)
filterHealthyInstances(instances, healthy) ==
    LET loop == HealthLoop(instances, 1, <<>>, 0, healthy)
    IN  IF loop.healthy # <<>> THEN loop.healthy ELSE Take(instances, MaxHealthy)

\* the cache test taking a list of exactly 30 minutes for valid (C30 fails when
\* the call at 30 minutes is served from the cache)
CacheValidInclusive(cache, lastFetch, now) ==
    cache # <<>> /\ now - lastFetch <= INSTANCE_CACHE_DURATION

\* randomInstancesCache.length > 0 &&
\* Date.now() - lastInstanceFetch < INSTANCE_CACHE_DURATION
CacheValid(cache, lastFetch, now) ==
    cache # <<>> /\ now - lastFetch < INSTANCE_CACHE_DURATION

\* fetchRandomInstances(): the list returned, the module variables afterwards and
\* the number of network requests made; shuffled is what shuffleArray made of the
\* instances
fetchRandomInstances(st, vars0, now, directory, healthy, shuffled) ==
    IF st.enableRandomInstances = Str(<<"false">>)
    THEN [result |-> <<>>, vars1 |-> vars0, requests |-> 0]
    ELSE IF CacheValid(vars0.randomInstancesCache, vars0.lastInstanceFetch, now)
    THEN [result |-> Take(vars0.randomInstancesCache, randomInstanceCount),
          vars1 |-> vars0, requests |-> 0]
    ELSE LET found == DirectoryInstances(directory)
             instances == filterHealthyInstances(found, healthy)
             randomInstances ==
                 Take(Take(shuffled, Min(randomInstanceCount * 2, Len(instances))),
                      randomInstanceCount)
         IN  [result |-> randomInstances,
              vars1 |-> [randomInstancesCache |-> randomInstances,
                         lastInstanceFetch |-> now],
              requests |-> 1 + (IF directory.hosts = <<>> THEN 1 ELSE 0)
                           + HealthLoop(found, 1, <<>>, 0, healthy).checks]

\* let randomInstancesCache = []; let lastInstanceFetch = 0
InitialCache == [randomInstancesCache |-> <<>>, lastInstanceFetch |-> 0]

\* the time between the last fetch and a call
Elapsed == {1, INSTANCE_CACHE_DURATION - 1, INSTANCE_CACHE_DURATION}

\* getAllInstances() calling fetchRandomInstances() at time now
FetchRandomInstances(now, directory, healthy, shuffled) ==
    LET call == fetchRandomInstances(_settings, state, now, directory, healthy, shuffled)
    IN  /\ state' = call.vars1
        /\ ret' = [op |-> "fetchRandomInstances", now |-> now, before |-> state,
                   result |-> call.result, requests |-> call.requests]
        /\ UNCHANGED <<build, _settings, saved>>

\* getAllInstances() with enableRandomInstances off: fetchRandomInstances is not
\* called
GetAllInstancesStatic ==
    /\ ret' = [op |-> "getAllInstances", result |-> getAllInstances(_settings, <<>>)]
    /\ UNCHANGED <<build, _settings, state, saved>>

InitCache ==
    /\ build = "part_000_mixed"
    /\ _settings \in {Part000Settings(Undefined, r) :
                         r \in {Undefined, Str(<<"true">>), Str(<<"false">>)}}
    /\ state = InitialCache
    /\ saved = Undefined
    /\ ret = Idle

NextCache ==
    \/ /\ ret.op = "idle"
       /\ _settings.enableRandomInstances # Str(<<"false">>)
       /\ \E elapsed \in Elapsed, directory \in DirectoryAnswers, healthy \in HealthyHosts :
             /\ state.lastInstanceFetch + elapsed <= MaxClock
             /\ \E shuffled \in Shuffles(filterHealthyInstances(
                                            DirectoryInstances(directory), healthy)) :
                   FetchRandomInstances(state.lastInstanceFetch + elapsed,
                                        directory, healthy, shuffled)
    \/ /\ ret.op = "idle"
       /\ _settings.enableRandomInstances = Str(<<"false">>)
       /\ GetAllInstancesStatic
    \/ Return

CacheSpec == InitCache /\ [][NextCache]_vars

(***************************************************************************)
(* What is read off a call.                                                *)
(***************************************************************************)
\* the language values a record carries: language, and languages whether it is
\* an array or a single value
LanguageValuesOf(item) ==
    (IF Truthy(item.language) THEN <<ToStringText(item.language)>> ELSE <<>>)
    \o (IF ~Truthy(item.languages) THEN <<>>
        ELSE IF item.languages.t = "array"
        THEN [i \in 1..Len(item.languages.a) |-> ToStringText(item.languages.a[i])]
        ELSE <<ToStringText(item.languages)>>)

\* where the leftmost embedding of sub in s ends: 0 for the empty sub, -1 when
\* sub is no subsequence of s
RECURSIVE EmbedEnd(_, _, _)
EmbedEnd(sub, s, at) ==
    IF sub = <<>> THEN at
    ELSE IF s = <<>> THEN -1
    ELSE IF Head(sub) = Head(s) THEN EmbedEnd(Tail(sub), Tail(s), at + 1)
    ELSE EmbedEnd(sub, Tail(s), at + 1)

\* the positions of s that the leftmost embedding of sub in s uses
RECURSIVE EmbedAt(_, _, _)
EmbedAt(sub, s, at) ==
    IF sub = <<>> \/ s = <<>> THEN {}
    ELSE IF Head(sub) = Head(s)
    THEN {at + 1} \cup EmbedAt(Tail(sub), Tail(s), at + 1)
    ELSE EmbedAt(sub, Tail(s), at + 1)

\* the list s without its i-th entry
Without(s, i) == SubSeq(s, 1, i - 1) \o SubSeq(s, i + 1, Len(s))

\* the IDs of a list of records, in order
IdsOf(items) == [i \in 1..Len(items) |-> items[i].id]

\* the records of a list whose ID no earlier record of the list has
RECURSIVE FirstById(_)
FirstById(items) ==
    IF items = <<>> THEN <<>>
    ELSE LET init == FirstById(SubSeq(items, 1, Len(items) - 1))
             last == items[Len(items)]
         IN  IF Includes(IdsOf(init), last.id) THEN init ELSE Append(init, last)

\* the fetched records of one channel the quota has to choose from: distinct IDs,
\* none seen before the call, all passing the language filter
EligibleOf(b, st, seenBefore, fetched, key) ==
    SelectSeq(FirstById(fetched),
              LAMBDA v : /\ ChannelKey(v) = key
                         /\ v.id # <<>>
                         /\ ~SeenIncludes(seenBefore, v.id)
                         /\ matchesPreferredLanguage(b, st, v))

\* how many records of a list fall under an author key
KeyCount(items, key) == Cardinality({i \in 1..Len(items) : ChannelKey(items[i]) = key})

\* the hosts of a pass whose listing request failed
FailedHosts(kinds) == {h \in DOMAIN kinds : kinds[h] # "ok"}

\* every host of a pass answered the listing request with a status other than 200
AllNon200(kinds) == DOMAIN kinds # {} /\ \A h \in DOMAIN kinds : kinds[h] = "non200"

(***************************************************************************)
(* C1.  The list returned by getHome carries no ID twice, and no author    *)
(* key (author.id.value, else author.name, else 'unknown') on more than    *)
(* maxPerChannel of its records.                                           *)
(* The counts are kept in the object literal {} (script.js 986), which     *)
(* inherits the keys of Object.prototype: for an author key such as        *)
(* "constructor" the first read is a function, the increment makes it NaN, *)
(* and NaN || 0 starts the count again at every record.                    *)
(***************************************************************************)
C1_NoDuplicateIdAndQuota ==
    ret.op = "getHome" =>
        /\ NoDuplicates(IdsOf(ret.final))
        /\ \A i \in 1..Len(ret.final) :
              KeyCount(ret.final, ChannelKey(ret.final[i])) <= MaxPerChannel(_settings)

(***************************************************************************)
(* C2.  For every configured seenMax >= 0, 0 included, the history holds   *)
(* at most seenMax IDs after every pushSeenId call.                        *)
(* Both builds read the bound as parseInt(_settings.seenMax) || 500        *)
(* (script.js 151, part_001 200): a configured 0 is falsy and becomes 500. *)
(***************************************************************************)
C2_HistoryWithinSeenMax ==
    LET configured == ParseInt(_settings.seenMax)
    IN  (ret.op = "pushSeenId" /\ ~configured.nan /\ configured.n >= 0)
            => Len(state.seenIds.a) <= configured.n

(***************************************************************************)
(* C3.  No record returned by getHome has an ID that was in state.seenIds  *)
(* when the call started; and the IDs a call returns are in state.seenIds  *)
(* after it whenever seenMax leaves room for them, so that a later call,   *)
(* in this session or after saveState and enable, does not return them.    *)
(***************************************************************************)
C3_SeenNotReturned ==
    ret.op = "getHome" =>
        /\ \A i \in 1..Len(ret.final) : ~SeenIncludes(ret.seenBefore, ret.final[i].id)
        /\ Len(ret.final) <= SeenMax(build, _settings) =>
              \A i \in 1..Len(ret.final) : SeenIncludes(state.seenIds, ret.final[i].id)

\* a call that started from the history the saved blob carries, was offered a
\* seen video and a new one, and returned the new one
C3_Witness ==
    /\ ret.op = "getHome"
    /\ saved.t = "string"
    /\ ret.seenBefore.a # <<>>
    /\ LoadState(InitialState, saved).state.seenIds = ret.seenBefore
    /\ \E i \in 1..Len(ret.fetched) : SeenIncludes(ret.seenBefore, ret.fetched[i].id)
    /\ ret.final # <<>>

(***************************************************************************)
(* C4.  A selected host whose listing request fails (a status other than   *)
(* 200, an exception of the HTTP call, a body that does not parse, a       *)
(* record whose mapping throws) contributes no record and does not abort   *)
(* getHome: the call returns what the same pass returns over the hosts     *)
(* that did not fail, in the same order.                                   *)
(***************************************************************************)
C4_FailedHostContributesNothing ==
    ret.op = "getHome" =>
        /\ ~ret.raised
        /\ ret.final = ret.okOnly

\* a pass over two hosts, the first failing while mapping a record, the second
\* answering: the call returns records
C4_Witness ==
    /\ ret.op = "getHome"
    /\ Len(ret.instances) = 2
    /\ ret.kinds[ret.instances[1]] = "badRecord"
    /\ ret.kinds[ret.instances[2]] = "ok"
    /\ ret.final # <<>>

C7_NonRandomFirstSampleSize ==
    (ret.op = "select" /\ ~Truthy(_settings.randomizeInstances)) =>
        ret.instances = Take(Candidates(_settings), SampleSize(build, _settings))

(***************************************************************************)
(* C7, amended.  With randomize off, selectInstancesForFeed returns        *)
(* exactly the first candidate, whatever sampleSize, and probes no host.   *)
(***************************************************************************)
C7_NonRandomFirstCandidate ==
    (ret.op = "select" /\ ~Truthy(_settings.randomizeInstances)) =>
        /\ ret.instances = <<Candidates(_settings)[1]>>
        /\ ret.probed = <<>>

\* three candidates, sampleSize 2, randomize off: one host comes back
C7_Witness ==
    /\ ret.op = "select"
    /\ ~Truthy(_settings.randomizeInstances)
    /\ Len(Candidates(_settings)) = 3
    /\ SampleSize(build, _settings) = 2
    /\ Len(ret.instances) = 1

(***************************************************************************)
(* C8.  For every settings record and every outcome of the probes, the     *)
(* sequence selectInstancesForFeed returns has at most sampleSize hosts,   *)
(* no host twice, and only hosts of the candidate set (user instances,     *)
(* base URL, index instances).                                             *)
(* src/script.js takes sampleSize as parseInt(...) || 3 with no lower      *)
(* bound: a negative setting gives a negative sampleSize, and one host is  *)
(* still returned.                                                         *)
(***************************************************************************)
C8_SelectionWithinSampleSize ==
    ret.op = "select" =>
        /\ Len(ret.instances) <= SampleSize(build, _settings)
        /\ NoDuplicates(ret.instances)
        /\ Range(ret.instances) \subseteq
              Range(normalizeInstancesList(_settings.instancesList))
              \cup {BaseUrl} \cup Range(INDEX_INSTANCES)

(***************************************************************************)
(* C9.  When no candidate is healthy (every probe fails or throws),        *)
(* selectInstancesForFeed returns the first sampleSize candidates of the   *)
(* original candidate list; and for every input the returned sequence is   *)
(* non-empty.                                                              *)
(* With randomize off the code returns the first candidate only: as stated *)
(* the claim fails.                                                        *)
(***************************************************************************)
C9_NoneHealthyFirstSampleSize ==
    ret.op = "select" =>
        /\ ret.instances # <<>>
        /\ (\A h \in Range(Candidates(_settings)) : ret.probe[h] # "ok") =>
              ret.instances = Take(Candidates(_settings), SampleSize(build, _settings))

(***************************************************************************)
(* C9, amended.  The returned sequence is never empty.  With randomize on, *)
(* when no probed candidate passes, selectInstancesForFeed returns the     *)
(* first max(1, sampleSize) candidates of the original, unshuffled list;   *)
(* with randomize off no probe is made and it returns the first candidate. *)
(***************************************************************************)
C9_FallbackFirstCandidates ==
    ret.op = "select" =>
        /\ ret.instances # <<>>
        /\ (\A h \in Range(ret.probed) : ret.probe[h] # "ok") =>
              ret.instances =
                  IF Truthy(_settings.randomizeInstances)
                  THEN Take(Candidates(_settings), Max(1, SampleSize(build, _settings)))
                  ELSE <<Candidates(_settings)[1]>>

\* randomize on, four candidates probed in another order than the original one,
\* one probe throwing and the others failing: the first two candidates come back
C9_Witness ==
    /\ ret.op = "select"
    /\ Truthy(_settings.randomizeInstances)
    /\ Len(Candidates(_settings)) = 4
    /\ SampleSize(build, _settings) = 2
    /\ ret.probed # Candidates(_settings)
    /\ \A h \in Range(Candidates(_settings)) : ret.probe[h] # "ok"
    /\ \E h \in Range(Candidates(_settings)) : ret.probe[h] = "throws"
    /\ ret.instances = Take(Candidates(_settings), 2)

(***************************************************************************)
(* C10.  For every saved-state argument that is absent, empty, blank, not  *)
(* a string or not parseable, source.enable completes without raising and  *)
(* takes nothing from it: no state is loaded, seenIds stays what it was    *)
(* (empty in a freshly loaded script), and serverVersion is the default or *)
(* what the probe of the base instance answered.                           *)
(***************************************************************************)
C10_BadBlobFreshState ==
    (ret.op = "enable" /\ ret.blob \in BadBlobs) =>
        /\ ~ret.raised
        /\ ~ret.loaded
        /\ state.seenIds = ret.before.seenIds
        /\ state.serverVersion = IF ret.probe.kind = "ok" THEN ret.probe.version
                                 ELSE ret.before.serverVersion
        /\ ret.before = InitialState =>
              /\ state.seenIds = Arr(<<>>)
              /\ ret.probe.kind # "ok" => state = InitialState

\* a freshly loaded script enabled with a truncated JSON text that names a seen
\* ID, the base instance not answering: the state is the default state
C10_Witness ==
    /\ ret.op = "enable"
    /\ ret.blob = Str(<<"{", "\"", "seenIds", "\"", ":", "[", "\"", "v1", "\"">>)
    /\ ret.before = InitialState
    /\ ret.probe.kind = "throws"
    /\ state = InitialState

(***************************************************************************)
(* C11.  For every state reached by enable, pushes and aggregation passes, *)
(* loading the blob saveState produces into a freshly loaded script gives  *)
(* the same state again: the same serverVersion and the same seenIds in    *)
(* the same order.                                                         *)
(* An ok probe whose body carries no serverVersion sets                    *)
(* state.serverVersion = undefined (script.js 1075); JSON.stringify leaves *)
(* the key out, and the fresh script keeps its default ''.                 *)
(***************************************************************************)
C11_SaveLoadRoundTrip ==
    \A probe \in VersionProbes :
        enable(InitialState, saveState(state), probe) = state

(***************************************************************************)
(* C12.  pushSeenId is idempotent on every reachable history: a second     *)
(* pushSeenId(id) directly after the first leaves seenIds as the first     *)
(* call left it, and pushSeenId of an ID already present leaves seenIds    *)
(* unchanged.                                                              *)
(* A present ID is not moved to the front, and the trim runs whether or    *)
(* not anything was added (script.js 155-160, part_001 199-201): on a      *)
(* history longer than seenMax the pushed ID itself can be cut off, and    *)
(* the second call then adds it at the front.                              *)
(***************************************************************************)
C12_PushSeenIdIdempotent ==
    \A id \in PushedIds :
        LET once == pushSeenId(build, _settings, state.seenIds, id)
        IN  /\ pushSeenId(build, _settings, once, id) = once
            /\ SeenIncludes(state.seenIds, id) => once = state.seenIds

(***************************************************************************)
(* C13.  Whatever the raw settings are, the values the code works with     *)
(* satisfy sampleSize >= 1 (selectInstancesForFeed), maxPerChannel >= 1    *)
(* (getHome) and seenMax >= 0 (pushSeenId).                                *)
(* src/script.js reads sampleSize and seenMax as parseInt(...) || default  *)
(* with no lower bound (116, 151): a configured "-1" is used as -1.        *)
(***************************************************************************)
C13_EffectiveSettingsInRange ==
    ret.op = "select" =>
        /\ SampleSize(build, _settings) >= 1
        /\ MaxPerChannel(_settings) >= 1
        /\ SeenMax(build, _settings) >= 0

(***************************************************************************)
(* C14.  matchesPreferredLanguage rejects a record if and only if          *)
(* preferredLanguages is non-empty, the record carries at least one        *)
(* language value (in language or in languages) and none of its language   *)
(* values contains a preferred tag, letter case ignored.                   *)
(* src/unnamed/part_001 reads languages only when it is an array (211): a  *)
(* record whose only language value is languages = "fr" is kept.           *)
(***************************************************************************)
C14_LanguageFilter ==
    ret.op = "matches" =>
        LET tags == normalizePreferredLanguages(_settings.preferredLanguages)
            values == LanguageValuesOf(ret.item)
        IN  (~ret.result) <=>
                /\ tags # <<>>
                /\ values # <<>>
                /\ \A i \in 1..Len(values), j \in 1..Len(tags) :
                      ~Contains(LowerText(values[i]), LowerText(tags[j]))

(***************************************************************************)
(* C15.  The pager getHome returns for the home feed built from several    *)
(* hosts has hasMore = false, whatever totals the hosts report and however *)
(* many records were fetched or dropped.                                   *)
(* src/script.js 1014 and part_001 913 pass the literal false.  The        *)
(* scripts of part_000 do not: fetchMixedVideos passes                     *)
(* allVideos.length > 0 (627) and the getVideoPager of line 1058 passes    *)
(* the disjunction of the hosts' total > start + count (1069, 1080).       *)
(***************************************************************************)
C15_HomePagerHasNoMore ==
    ret.op = "homePager" => ret.hasMore = FALSE

(***************************************************************************)
(* C16.  getVideoPager for one host never lets an exception escape: a      *)
(* status other than 200, a transport error, an empty body and a body that *)
(* does not parse each give an empty result returned to the caller.        *)
(* In src/script.js and part_001 only the status is checked (421, 378):    *)
(* an exception of http.GET or of JSON.parse leaves the function.          *)
(***************************************************************************)
C16_NoExceptionEscapes ==
    ret.op = "getVideoPager" => ~ret.threw

(***************************************************************************)
(* C17.  After enable with randomizeInstances given as the text "false" in *)
(* any letter case, selectInstancesForFeed takes the non-randomized branch *)
(* (the first candidate, no host probed); given as "true" in any letter    *)
(* case it takes the randomized one (hosts are probed).                    *)
(* src/script.js JSON-parses the text (47): "False" and "FALSE" are no     *)
(* JSON and stay non-empty strings, which are truthy at line 117.          *)
(* part_001 keeps every such text as a string, "false" included (63-91).   *)
(***************************************************************************)
C17_BooleanTextsCoerced ==
    (ret.op = "enable" /\ ret.settings.randomizeInstances.t = "string") =>
        \A i \in SelectionInputs([_settings EXCEPT !.randomizeInstances = Bool(TRUE)],
                                 {"ok", "notOk"}) :
            LET sel == selectInstancesForFeed(build, _settings, i.shuffled, i.probe)
            IN  /\ ret.settings.randomizeInstances.s \in FalseTexts
                     => sel = [instances |-> <<Candidates(_settings)[1]>>,
                               probed |-> <<>>]
                /\ ret.settings.randomizeInstances.s \in TrueTexts
                     => sel.probed # <<>>

(***************************************************************************)
(* C18.  The candidate list built from the settings holds no host twice,   *)
(* entries that normalize to the same scheme://host counting as one host,  *)
(* keeps the user's instances first in their first-seen order, and is      *)
(* never empty.                                                            *)
(* normalizeInstancesList only trims (script.js 65-75) and the Set of line *)
(* 109 compares the texts: "https://a/" and "https://a" are both kept.     *)
(***************************************************************************)
C18_CandidatesOncePerHost ==
    LET candidates == Candidates(_settings)
        user == Dedupe(normalizeInstancesList(_settings.instancesList))
    IN  ret.op = "select" =>
           /\ candidates # <<>>
           /\ SubSeq(candidates, 1, Len(user)) = user
           /\ \A i, j \in 1..Len(candidates) :
                 i # j => getBaseUrl(candidates[i]) # getBaseUrl(candidates[j])

(***************************************************************************)
(* C19.  What getHome returns is a subsequence of the hosts' listings      *)
(* concatenated in selection order, it holds at most 20 records, and the   *)
(* records after the 20th accepted one play no part: the result and the    *)
(* history are those of the listings cut off after that record.            *)
(***************************************************************************)
C19_SubsequenceWithinPage ==
    ret.op = "getHome" =>
        LET end == EmbedEnd(ret.final, ret.fetched, 0)
            cut == FilterLoop(build, _settings, ret.seenBefore,
                              Take(ret.fetched, end), {}, <<>>, <<>>)
        IN  /\ end >= 0
            /\ Len(ret.final) <= totalLimit
            /\ Len(ret.final) = totalLimit =>
                  /\ cut = ret.final
                  /\ state.seenIds = PushAll(build, _settings, ret.seenBefore, cut)

\* a full page from two hosts, with an acceptable record left behind it
C19_Witness ==
    /\ ret.op = "getHome"
    /\ Len(ret.instances) = 2
    /\ Len(ret.final) = totalLimit
    /\ \E i \in 1..Len(ret.fetched) :
          /\ i > EmbedEnd(ret.final, ret.fetched, 0)
          /\ ~Includes(IdsOf(ret.final), ret.fetched[i].id)
          /\ ~SeenIncludes(ret.seenBefore, ret.fetched[i].id)
    /\ \E i \in 1..Len(ret.final) : ret.final[i] \notin Range(LongListing(1, 12))
    /\ ret.final[1] = LongItem(1)

(***************************************************************************)
(* C20.  The quota is greedy in fetch order: of the k fetched records of   *)
(* one channel that have distinct unseen IDs and pass the language filter, *)
(* getHome returns exactly the first min(k, maxPerChannel), as long as the *)
(* page of 20 is not full.                                                 *)
(* For a channel named like a member of Object.prototype the count read    *)
(* from perChannelCount = {} is a function and never reaches the quota     *)
(* (script.js 999-1001): every record of the channel is returned.          *)
(***************************************************************************)
C20_QuotaGreedy ==
    (ret.op = "getHome" /\ Len(ret.final) < totalLimit) =>
        \A key \in {ChannelKey(ret.fetched[i]) : i \in 1..Len(ret.fetched)} :
            LET eligible == EligibleOf(build, _settings, ret.seenBefore, ret.fetched, key)
            IN  SelectSeq(ret.final, LAMBDA v : ChannelKey(v) = key)
                    = Take(eligible, Min(Len(eligible), MaxPerChannel(_settings)))

(***************************************************************************)
(* C21.  After getHome has returned, the IDs of the returned records have  *)
(* been pushed into state.seenIds: when no more records are returned than  *)
(* seenMax allows, their IDs are the front of state.seenIds, the record    *)
(* accepted last first, and the history as it was follows them.            *)
(***************************************************************************)
C21_ReturnedIdsAtFront ==
    (ret.op = "getHome" /\ Len(ret.final) <= SeenMax(build, _settings)) =>
        LET n == Len(ret.final)
        IN  /\ state.seenIds.t = "array"
            /\ Len(state.seenIds.a) >= n
            /\ \A i \in 1..n : state.seenIds.a[i] = Str(ret.final[n + 1 - i].id)
            /\ SubSeq(state.seenIds.a, n + 1, Len(state.seenIds.a))
                  = Take(ret.seenBefore.a, Len(state.seenIds.a) - n)

\* two records returned on top of a history that was not empty
C21_Witness ==
    /\ ret.op = "getHome"
    /\ Len(ret.final) >= 2
    /\ Len(ret.final) <= SeenMax(build, _settings)
    /\ ret.seenBefore.a # <<>>
    /\ ret.final[1].id # ret.final[2].id

(***************************************************************************)
(* C22.  pushSeenId of an ID that is not in the history puts it at index   *)
(* 0 in front of the older IDs, which keep their order; what is removed is *)
(* removed from the tail, and only when the history has grown beyond       *)
(* seenMax; with seenMax >= 1 the pushed ID itself stays at index 0.       *)
(***************************************************************************)
C22_PushFrontEvictTail ==
    (ret.op = "pushSeenId" /\ ret.id # <<>> /\ ~SeenIncludes(ret.seenBefore, ret.id)) =>
        LET added == <<Str(ret.id)>> \o ret.seenBefore.a
            kept == Len(state.seenIds.a)
        IN  /\ kept <= Len(added)
            /\ state.seenIds.a = Take(added, kept)
            /\ Len(added) <= SeenMax(build, _settings) => kept = Len(added)
            /\ SeenMax(build, _settings) >= 1 =>
                  /\ kept >= 1
                  /\ state.seenIds.a[1] = Str(ret.id)

\* a new ID pushed onto a full history: the oldest ID leaves
C22_Witness ==
    /\ ret.op = "pushSeenId"
    /\ ret.id # <<>>
    /\ ~SeenIncludes(ret.seenBefore, ret.id)
    /\ SeenMax(build, _settings) >= 1
    /\ ret.seenBefore.a # <<>>
    /\ Len(state.seenIds.a) = Len(ret.seenBefore.a)
    /\ state.seenIds.a[1] = Str(ret.id)

(***************************************************************************)
(* C23.  A successful fetch of page p of one host asks for start = 20 * p  *)
(* and count = 20, and the pager's hasMore is true exactly when the total  *)
(* the host reports is greater than start + count.  nextPage on a pager    *)
(* asks the same host, under the same path and with the same other         *)
(* parameters, for the page after the pager's.                             *)
(***************************************************************************)
C23_PageWindowAndNextPage ==
    (ret.op \in {"fetchPage", "nextPage"} /\ ~ret.threw /\ ret.resp.kind = "ok") =>
        LET p == IF ret.page = Undefined THEN 0 ELSE ret.page.n
            q == IF ret.fromPage = Undefined THEN 0 ELSE ret.fromPage.n
        IN  /\ ret.request.params.start = Num(20 * p)
            /\ ret.request.params.count = Num(20)
            /\ ret.pager.hasMore
                  <=> (ret.resp.total # Undefined /\ ret.resp.total.n > 20 * p + 20)
            /\ ret.op = "nextPage" =>
                  /\ p = q + 1
                  /\ ret.request.host = ret.from.host
                  /\ ret.request.path = ret.from.path
                  /\ ret.request.params.sort = ret.from.params.sort

\* the second page fetched by nextPage, with a third one behind it
C23_Witness ==
    /\ ret.op = "nextPage"
    /\ ~ret.threw
    /\ ret.resp.kind = "ok"
    /\ ret.page = Num(1)
    /\ ret.pager.hasMore
    /\ ret.request.host = <<"A">>
    /\ ret.request.params.sort = Str(<<"best">>)

(***************************************************************************)
(* C24.  A record that a getHome pass rejects, whichever filter rejects    *)
(* it, has no effect on the pass: the pass over the fetched records        *)
(* without it, and the pass over the returned records alone, return the    *)
(* same records (so it took up no quota and no place in the set of         *)
(* accepted IDs), and state.seenIds holds afterwards only what it held     *)
(* before and the IDs of the returned records.                             *)
(***************************************************************************)
C24_RejectedHasNoEffect ==
    (ret.op = "getHome" /\ Len(ret.final) < totalLimit) =>
        LET accepted == EmbedAt(ret.final, ret.fetched, 0)
        IN  /\ Cardinality(accepted) = Len(ret.final)
            /\ \A i \in (1..Len(ret.fetched)) \ accepted :
                  FilterLoop(build, _settings, ret.seenBefore,
                             Without(ret.fetched, i), {}, <<>>, <<>>) = ret.final
            /\ FilterLoop(build, _settings, ret.seenBefore,
                          ret.final, {}, <<>>, <<>>) = ret.final
            /\ Range(state.seenIds.a)
                  \subseteq Range(ret.seenBefore.a)
                            \cup {Str(ret.final[i].id) : i \in 1..Len(ret.final)}

\* a pass that rejects a record for its language, then accepts a record of the
\* same ID, rejects a record for the quota of the channel and a repetition of the
\* accepted record
C24_Witness ==
    /\ ret.op = "getHome"
    /\ MaxPerChannel(_settings) = 1
    /\ ret.fetched = <<V1f, V1, V5, V1>>
    /\ ret.final = <<V1>>
    /\ ret.seenBefore.a = <<>>

(***************************************************************************)
(* C25.  After enable with any saved-state text, and after any getHome,    *)
(* pushSeenId and saveState calls that follow, state.seenIds is a list of  *)
(* IDs in which no ID occurs twice.                                        *)
(* enable spreads whatever object the text parses to over the state        *)
(* (script.js 1059, part_001 831) and replaces only a falsy seenIds        *)
(* (1084): a list with a repeated ID, or a number, stays.                  *)
(***************************************************************************)
C25_SeenIdsDistinctAlways ==
    /\ state.seenIds.t = "array"
    /\ NoDuplicates(state.seenIds.a)
    /\ \A i \in 1..Len(state.seenIds.a) : state.seenIds.a[i].t = "string"

(***************************************************************************)
(* C26.  source.enable asks the base instance for its version exactly when *)
(* no saved state was loaded.  When the saved-state text parses to a       *)
(* truthy value no request is sent and serverVersion is the value the text *)
(* carries; otherwise one request is sent, and a request that fails or     *)
(* throws leaves serverVersion as it was; enable never raises.             *)
(* A text that parses to a truthy value without a serverVersion member     *)
(* (saveState writes one when serverVersion is undefined, see C11) counts  *)
(* as loaded (script.js 1058-1061): no request is sent and serverVersion   *)
(* keeps the '' of the fresh script.                                       *)
(***************************************************************************)
C26_ProbeIffNothingLoaded ==
    ret.op = "enable" =>
        LET text == ret.blob.t = "string" /\ Trim(ret.blob.s) # <<>>
            parsed == JsonParse(ret.blob.s)
            truthy == text /\ parsed.ok /\ Truthy(parsed.v)
            carried == IF parsed.v.t = "object" /\ HasKey(parsed.v, <<"serverVersion">>)
                       THEN GetKey(parsed.v, <<"serverVersion">>)
                       ELSE Undefined
        IN  /\ ~ret.raised
            /\ truthy => (ret.probes = 0 /\ state.serverVersion = carried)
            /\ ~truthy =>
                  /\ ret.probes = 1
                  /\ ret.probe.kind # "ok" => state.serverVersion = ret.before.serverVersion

(***************************************************************************)
(* C27.  waitForSettingsReady always terminates.  For an object or a       *)
(* string that is not blank it returns true and has not slept; for every   *)
(* other candidate it returns false and has slept exactly maxAttempts      *)
(* times, baseDelay * 2^attempt for attempt = 0..maxAttempts-1.  The       *)
(* result is that of the first check.                                      *)
(***************************************************************************)
C27_WaitTerminates ==
    /\ [](ret.op = "waitForSettingsReady" =>
             LET first == \/ ret.candidate.t \in {"object", "array"}
                          \/ /\ ret.candidate.t = "string"
                             /\ \E i \in 1..Len(ret.candidate.s) : ret.candidate.s[i] # " "
             IN  /\ ret.pc = "done" =>
                       /\ ret.result = first
                       /\ first => ret.slept = <<>>
                       /\ ~first => Len(ret.slept) = ret.maxAttempts
                 /\ \A i \in 1..Len(ret.slept) :
                       ret.slept[i].ms = ret.baseDelay * 2 ^ (i - 1))
    /\ (ret.op = "waitForSettingsReady"
           ~> (ret.op = "waitForSettingsReady" /\ ret.pc = "done"))

\* the call for a blank text has returned false after five sleeps
C27_Witness ==
    /\ ret.op = "waitForSettingsReady"
    /\ ret.pc = "done"
    /\ ret.candidate = Str(<<" ", " ">>)
    /\ ret.maxAttempts = 5
    /\ ~ret.result
    /\ Len(ret.slept) = 5
    /\ ret.slept[5].ms = 2400

(***************************************************************************)
(* C28.  Whatever onInit, onProgress and onConcluded calls a tracker       *)
(* receives, a view report carries viewEvent = "seek" exactly when an      *)
(* onProgress call with isPlaying = true sends it and the floored time of  *)
(* the call differs from lastReportedTime by more than 10 seconds.  The    *)
(* report clears the flag, so it is never set when a call ends.  An        *)
(* onProgress call with isPlaying = false sends nothing and leaves the     *)
(* tracker as it is.                                                       *)
(***************************************************************************)
C28_SeekReportedOnce ==
    ret.op \in {"onInit", "onProgress", "onConcluded"} =>
        LET floored == ret.half \div 2
            jump == IF floored >= ret.before.lastReportedTime
                    THEN floored - ret.before.lastReportedTime
                    ELSE ret.before.lastReportedTime - floored
            playing == ret.op = "onProgress" /\ ret.isPlaying
        IN  /\ \A i \in 1..Len(ret.reports) :
                  ret.reports[i].viewEvent = "seek" <=> (playing /\ jump > 10)
            /\ ~ret.tracker.seekOccurred
            /\ Len(ret.reports) = IF ret.op = "onProgress" /\ ~ret.isPlaying THEN 0 ELSE 1
            /\ (ret.op = "onProgress" /\ ~ret.isPlaying) => ret.tracker = ret.before

\* a jump of eleven seconds back reported as a seek
C28_Witness ==
    /\ ret.op = "onProgress"
    /\ ret.isPlaying
    /\ ret.before.lastReportedTime = 22
    /\ ret.half = 22
    /\ ret.reports[1].viewEvent = "seek"
    /\ ret.reports[1].currentTime = 11

(***************************************************************************)
(* C29.  While the submitActivity setting is false, given as the boolean   *)
(* or as the text "false", getPlaybackTracker returns null for every URL,  *)
(* and so no view report is sent; it also returns null for every URL from  *)
(* which no video ID can be taken.                                         *)
(* part_001 keeps the text "false" as a string (63-91), which is truthy at *)
(* line 669: the tracker is returned and reports are posted.               *)
(***************************************************************************)
C29_NoTrackerWhileOff ==
    ret.op \in TrackerOps =>
        /\ _settings.submitActivity \in {Bool(FALSE), Str(<<"false">>)} =>
              (ret.tracker = NoTracker /\ ret.reports = <<>>)
        /\ (/\ ret.op = "getPlaybackTracker"
            /\ ret.url \notin {<<"A", "/", "w", "/", "v1">>,
                               <<"B", "/", "videos", "/", "watch", "/", "v3">>,
                               <<"A", "/", "videos", "/", "embed", "/", "v1", "/", "x">>,
                               <<"A", "/", "api", "/", "v1", "/", "videos", "/", "v3">>})
              => ret.tracker = NoTracker

(***************************************************************************)
(* C30.  fetchRandomInstances returns the cached list without a network    *)
(* request exactly when the cache is not empty and less than 30 minutes    *)
(* old, and leaves the cache alone then; a call at 30 minutes or later, or *)
(* with an empty cache, fetches anew, puts the new list in the cache and   *)
(* sets the time of the fetch to the time of the call.  No list returned   *)
(* has more than 3 entries.                                                *)
(***************************************************************************)
C30_CacheServedWhileFresh ==
    ret.op = "fetchRandomInstances" =>
        LET age == ret.now - ret.before.lastInstanceFetch
            fresh == Len(ret.before.randomInstancesCache) > 0 /\ age < 30 * 60 * 1000
        IN  /\ fresh <=> ret.requests = 0
            /\ fresh => (ret.result = ret.before.randomInstancesCache /\ state = ret.before)
            /\ ~fresh =>
                  /\ state.randomInstancesCache = ret.result
                  /\ state.lastInstanceFetch = ret.now
            /\ Len(ret.result) <= 3
            /\ Len(state.randomInstancesCache) <= 3

\* a call exactly 30 minutes after the fetch: the list of three is fetched anew
\* and another list replaces it
C30_Witness ==
    /\ ret.op = "fetchRandomInstances"
    /\ Len(ret.before.randomInstancesCache) = 3
    /\ ret.now - ret.before.lastInstanceFetch = 30 * 60 * 1000
    /\ ret.requests > 0
    /\ Len(ret.result) = 3
    /\ ret.result # ret.before.randomInstancesCache
    /\ state.lastInstanceFetch = ret.now

====
